---- MODULE Spec2Model ----
(***************************************************************************)
(* Pallet optimiser: the 2D rectangle packer (domain/packer.ts), the 3D    *)
(* orientation fitter and the effective limits (domain/helpers.ts), the    *)
(* rate lookup and price breakdown (domain/pricing.ts), the single-item    *)
(* optimiser (domain/optimizer.ts) and the multi-item allocator            *)
(* (domain/binPacking.ts).                                                 *)
(*                                                                         *)
(* Lengths are centimetres, weights kilograms, both integers.  Money is    *)
(* kept in integer cents once it has been through toFixed(2).  Positions   *)
(* after centring are kept doubled (the code halves an integer there).     *)
(***************************************************************************)
EXTENDS Integers, Sequences, FiniteSets, TLC

VARIABLES
    \* ---- Packer instance (packer.ts) and the frame of one pack() call
    width, height, freeRects,
    packItems, sortedItems, packIdx, packedItems, packRet, packPc,
    \* ---- one call of check3DFit (helpers.ts): its arguments and its result
    fitArgs, fitResult, fitPc,
    \* ---- the configuration handed to optimize and optimizeMultiItem
    \*      (palletTypes, rateTable, surcharges)
    config,
    \* ---- one call of optimize (optimizer.ts)
    optInput, optIdx, candidates, rejected, optRet, optPc,
    \* ---- one call of optimizeMultiItem (binPacking.ts): its input, its locals
    \*      and its result
    multiInput, remainingItems, sortedPallets, phase1Idx, allocations, unallocated,
    warnings, multiRet, multiPc,
    \* ---- one call of getEffectiveLimits (helpers.ts)
    limitsArgs, limitsResult, limitsPc,
    \* ---- one call of calculatePrice (pricing.ts)
    priceArgs, priceResult, pricePc,
    \* ---- one call of calculateCarryPrice (carryService.ts)
    carryArgs, carryResult, carryPc,
    \* ---- the page (app/page.tsx): the item list of Home, the module's id
    \*      counter, what localStorage holds under 'pakowacz-items', and
    \*      whether the page is open
    pageItems, itemIdCounter, localStorage, pageOpen

packerVars == <<width, height, freeRects, packItems, sortedItems, packIdx,
                packedItems, packRet, packPc>>

fitVars == <<fitArgs, fitResult, fitPc>>

optVars == <<optInput, optIdx, candidates, rejected, optRet, optPc>>
multiVars == <<multiInput, remainingItems, sortedPallets, phase1Idx, allocations, unallocated,
               warnings, multiRet, multiPc>>

limitsVars == <<limitsArgs, limitsResult, limitsPc>>
priceVars == <<priceArgs, priceResult, pricePc>>
carryVars == <<carryArgs, carryResult, carryPc>>
pageVars == <<pageItems, itemIdCounter, localStorage, pageOpen>>

vars == <<packerVars, fitVars, config, optVars, multiVars, limitsVars, priceVars, carryVars,
        pageVars>>

\* what the operations of each component leave alone
notPackerVars == <<fitVars, config, optVars, multiVars, limitsVars, priceVars, carryVars,
        pageVars>>
notFitVars == <<packerVars, config, optVars, multiVars, limitsVars, priceVars, carryVars,
        pageVars>>
notOptVars == <<packerVars, fitVars, config, multiVars, limitsVars, priceVars, carryVars,
        pageVars>>
notMultiVars == <<packerVars, fitVars, optVars, limitsVars, priceVars, carryVars,
        pageVars>>
notLimitsVars == <<packerVars, fitVars, config, optVars, multiVars, priceVars, carryVars,
        pageVars>>
notPriceVars == <<packerVars, fitVars, config, optVars, multiVars, limitsVars, carryVars,
        pageVars>>
notCarryVars == <<packerVars, fitVars, config, optVars, multiVars, limitsVars, priceVars,
        pageVars>>
notPageVars == <<packerVars, fitVars, config, optVars, multiVars, limitsVars, priceVars,
                 carryVars>>

---------------------------------------------------------------------------
(* Bounds of the model *)

\* longest item list handed to one pack() call
MaxPackItems == 3

\* sides of the packer surfaces and of the rectangles packed on them
SurfaceSides == 2..4
RectSides == 1..3

---------------------------------------------------------------------------
(* Generic helpers *)

Max2(a, b) == IF a >= b THEN a ELSE b
Min2(a, b) == IF a <= b THEN a ELSE b
Abs(a) == IF a < 0 THEN -a ELSE a

\* all sequences over S of length 0..n
SeqsUpTo(S, n) == UNION {[1..k -> S] : k \in 0..n}

RemoveAt(s, i) == [k \in 1..(Len(s) - 1) |-> IF k < i THEN s[k] ELSE s[k + 1]]

RECURSIVE InsertDesc(_, _, _, _)
\* insert index e into the index list s, ordered by descending key, after every
\* index whose key is >= keys[e]: Array.prototype.sort is stable
InsertDesc(s, e, i, keys) ==
    IF i > Len(s) THEN Append(s, e)
    ELSE IF keys[s[i]] < keys[e]
         THEN SubSeq(s, 1, i - 1) \o <<e>> \o SubSeq(s, i, Len(s))
         ELSE InsertDesc(s, e, i + 1, keys)

RECURSIVE SortPermFrom(_, _, _)
SortPermFrom(keys, i, acc) ==
    IF i > Len(keys) THEN acc
    ELSE SortPermFrom(keys, i + 1, InsertDesc(acc, i, 1, keys))

\* [...s].sort((a, b) => key(b) - key(a)), keys[i] being the key of s[i]
SortDesc(s, keys) ==
    LET perm == SortPermFrom(keys, 1, <<>>)
    IN  [i \in 1..Len(s) |-> s[perm[i]]]

---------------------------------------------------------------------------
(* packer.ts *)

\* Number.MAX_VALUE, the initial best score of findBestNode
MAX_VALUE == 2147483647

NoNode == [found |-> FALSE, x |-> 0, y |-> 0, width |-> 0, height |-> 0, rotated |-> FALSE]

\* intersect with the last comparison made against r.x
IntersectYAgainstX(n, r) ==
    /\ n.x < r.x + r.w
    /\ n.x + n.w > r.x
    /\ n.y < r.y + r.h
    /\ n.y + n.h > r.x

Intersect(n, r) ==
    /\ n.x < r.x + r.w
    /\ n.x + n.w > r.x
    /\ n.y < r.y + r.h
    /\ n.y + n.h > r.y

IsContained(a, b) ==
    /\ a.x >= b.x
    /\ a.y >= b.y
    /\ a.x + a.w <= b.x + b.w
    /\ a.y + a.h <= b.y + b.h

\* one orientation (iw x ih, flag rot) of the item tried against one free rectangle
TryOrientation(best, fr, iw, ih, rot) ==
    IF fr.w >= iw /\ fr.h >= ih
    THEN LET leftoverHoriz == Abs(fr.w - iw)
             leftoverVert == Abs(fr.h - ih)
             shortSideFit == Min2(leftoverHoriz, leftoverVert)
             longSideFit == Max2(leftoverHoriz, leftoverVert)
         IN  IF \/ shortSideFit < best.bestShortSideFit
                \/ (shortSideFit = best.bestShortSideFit /\ longSideFit < best.bestLongSideFit)
             THEN [node |-> [found |-> TRUE, x |-> fr.x, y |-> fr.y, width |-> iw,
                             height |-> ih, rotated |-> rot],
                   bestShortSideFit |-> shortSideFit,
                   bestLongSideFit |-> longSideFit]
             ELSE best
    ELSE best

RECURSIVE FindBestFrom(_, _, _, _, _)
FindBestFrom(frs, i, w, h, best) ==
    IF i > Len(frs) THEN best
    ELSE FindBestFrom(frs, i + 1, w, h,
            TryOrientation(TryOrientation(best, frs[i], w, h, FALSE), frs[i], h, w, TRUE))

RECURSIVE FindBestUnrotatedFrom(_, _, _, _, _)
FindBestUnrotatedFrom(frs, i, w, h, best) ==
    IF i > Len(frs) THEN best
    ELSE FindBestUnrotatedFrom(frs, i + 1, w, h, TryOrientation(best, frs[i], w, h, FALSE))

\* findBestNode without the rotated orientation
FindBestNodeNoRotation(frs, w, h) ==
    FindBestUnrotatedFrom(frs, 1, w, h,
        [node |-> NoNode, bestShortSideFit |-> MAX_VALUE, bestLongSideFit |-> MAX_VALUE]).node

\* findBestNode: best short side fit over every free rectangle, both orientations
FindBestNode(frs, w, h) ==
    FindBestFrom(frs, 1, w, h,
        [node |-> NoNode, bestShortSideFit |-> MAX_VALUE, bestLongSideFit |-> MAX_VALUE]).node

\* splitFreeRects with the right fragment's width taken from freeRect.y
SplitOneWidthFromY(usedNode, fr) ==
    IF Intersect(usedNode, fr)
    THEN LET xOverlap == usedNode.x < fr.x + fr.w /\ usedNode.x + usedNode.w > fr.x
             yOverlap == usedNode.y < fr.y + fr.h /\ usedNode.y + usedNode.h > fr.y
             above == IF xOverlap /\ usedNode.y > fr.y /\ usedNode.y < fr.y + fr.h
                      THEN <<[x |-> fr.x, y |-> fr.y, w |-> fr.w, h |-> usedNode.y - fr.y]>>
                      ELSE <<>>
             below == IF xOverlap /\ usedNode.y + usedNode.h < fr.y + fr.h
                      THEN <<[x |-> fr.x, y |-> usedNode.y + usedNode.h, w |-> fr.w,
                              h |-> fr.y + fr.h - (usedNode.y + usedNode.h)]>>
                      ELSE <<>>
             left == IF yOverlap /\ usedNode.x > fr.x /\ usedNode.x < fr.x + fr.w
                     THEN <<[x |-> fr.x, y |-> fr.y, w |-> usedNode.x - fr.x, h |-> fr.h]>>
                     ELSE <<>>
             right == IF yOverlap /\ usedNode.x + usedNode.w < fr.x + fr.w
                      THEN <<[x |-> usedNode.x + usedNode.w, y |-> fr.y,
                              w |-> (fr.y + fr.w) - (usedNode.x + usedNode.w), h |-> fr.h]>>
                      ELSE <<>>
         IN  above \o below \o left \o right
    ELSE <<fr>>

\* the fragments of one free rectangle around the used node, in push order
SplitOne(usedNode, fr) ==
    IF Intersect(usedNode, fr)
    THEN LET xOverlap == usedNode.x < fr.x + fr.w /\ usedNode.x + usedNode.w > fr.x
             yOverlap == usedNode.y < fr.y + fr.h /\ usedNode.y + usedNode.h > fr.y
             above == IF xOverlap /\ usedNode.y > fr.y /\ usedNode.y < fr.y + fr.h
                      THEN <<[x |-> fr.x, y |-> fr.y, w |-> fr.w, h |-> usedNode.y - fr.y]>>
                      ELSE <<>>
             below == IF xOverlap /\ usedNode.y + usedNode.h < fr.y + fr.h
                      THEN <<[x |-> fr.x, y |-> usedNode.y + usedNode.h, w |-> fr.w,
                              h |-> fr.y + fr.h - (usedNode.y + usedNode.h)]>>
                      ELSE <<>>
             left == IF yOverlap /\ usedNode.x > fr.x /\ usedNode.x < fr.x + fr.w
                     THEN <<[x |-> fr.x, y |-> fr.y, w |-> usedNode.x - fr.x, h |-> fr.h]>>
                     ELSE <<>>
             right == IF yOverlap /\ usedNode.x + usedNode.w < fr.x + fr.w
                      THEN <<[x |-> usedNode.x + usedNode.w, y |-> fr.y,
                              w |-> (fr.x + fr.w) - (usedNode.x + usedNode.w), h |-> fr.h]>>
                      ELSE <<>>
         IN  above \o below \o left \o right
    ELSE <<fr>>

RECURSIVE SplitAll(_, _, _)
SplitAll(usedNode, frs, i) ==
    IF i > Len(frs) THEN <<>>
    ELSE SplitOne(usedNode, frs[i]) \o SplitAll(usedNode, frs, i + 1)

RECURSIVE PruneFrom(_, _)
\* pruneFreeRects: drop rectangle i when some other rectangle contains it, then
\* look at the rectangle that moved into position i
PruneFrom(frs, i) ==
    IF i > Len(frs) THEN frs
    ELSE IF \E j \in 1..Len(frs) : j # i /\ IsContained(frs[i], frs[j])
         THEN PruneFrom(RemoveAt(frs, i), i)
         ELSE PruneFrom(frs, i + 1)

\* pruneFreeRects that drops nothing
PruneFreeRectsKeepsAll(frs) == frs

PruneFreeRects(frs) == PruneFrom(frs, 1)

\* splitFreeRects: split, drop empty fragments, prune
SplitFreeRects(frs, usedNode) ==
    PruneFreeRects(SelectSeq(SplitAll(usedNode, frs, 1), LAMBDA r : r.w > 0 /\ r.h > 0))

LongSide(item) == Max2(item.w, item.h)

\* the sort at the head of pack
SortItems(items) == SortDesc(items, [i \in 1..Len(items) |-> LongSide(items[i])])

PackedItemOf(item, node) ==
    [id |-> item.id, x |-> node.x, y |-> node.y, width |-> node.width,
     height |-> node.height, rotated |-> node.rotated]

UsedNodeOf(node) == [x |-> node.x, y |-> node.y, w |-> node.width, h |-> node.height]

\* what pack returns: null, or the placements
NullResult == [isNull |-> TRUE, placed |-> <<>>]
Placed(ps) == [isNull |-> FALSE, placed |-> ps]

RectItems == [id : {0}, w : RectSides, h : RectSides]

\* the item lists of the model: ids are the positions in the list
PackInputs ==
    {[i \in 1..Len(s) |-> [s[i] EXCEPT !.id = i]] : s \in SeqsUpTo(RectItems, MaxPackItems)}

\* new Packer(width, height)
PackerInit ==
    /\ width \in SurfaceSides
    /\ height \in SurfaceSides
    /\ freeRects = <<[x |-> 0, y |-> 0, w |-> width, h |-> height]>>
    /\ packItems = <<>>
    /\ sortedItems = <<>>
    /\ packIdx = 0
    /\ packedItems = <<>>
    /\ packRet = NullResult
    /\ packPc = "new"

\* pack(items): entry, the sort
PackCall ==
    /\ packPc = "new"
    /\ \E items \in PackInputs :
        /\ packItems' = items
        /\ sortedItems' = SortItems(items)
    /\ packIdx' = 1
    /\ packedItems' = <<>>
    /\ packPc' = "loop"
    /\ UNCHANGED <<width, height, freeRects, packRet>>
    /\ UNCHANGED notPackerVars

\* one iteration of the loop: the item is placed and the free list split
PackPlace ==
    /\ packPc = "loop"
    /\ packIdx <= Len(sortedItems)
    /\ LET item == sortedItems[packIdx]
           bestNode == FindBestNode(freeRects, item.w, item.h)
       IN  /\ bestNode.found
           /\ packedItems' = Append(packedItems, PackedItemOf(item, bestNode))
           /\ freeRects' = SplitFreeRects(freeRects, UsedNodeOf(bestNode))
    /\ packIdx' = packIdx + 1
    /\ UNCHANGED <<width, height, packItems, sortedItems, packRet, packPc>>
    /\ UNCHANGED notPackerVars

\* one iteration of the loop: no node for the item, pack returns null
PackFail ==
    /\ packPc = "loop"
    /\ packIdx <= Len(sortedItems)
    /\ LET item == sortedItems[packIdx]
       IN  ~FindBestNode(freeRects, item.w, item.h).found
    /\ packRet' = NullResult
    /\ packPc' = "returned"
    /\ UNCHANGED <<width, height, freeRects, packItems, sortedItems, packIdx, packedItems>>
    /\ UNCHANGED notPackerVars

\* the loop is over: pack returns the placements
PackReturn ==
    /\ packPc = "loop"
    /\ packIdx > Len(sortedItems)
    /\ packRet' = Placed(packedItems)
    /\ packPc' = "returned"
    /\ UNCHANGED <<width, height, freeRects, packItems, sortedItems, packIdx, packedItems>>
    /\ UNCHANGED notPackerVars

PackerNext == PackCall \/ PackPlace \/ PackFail \/ PackReturn

\* no Packer under observation
PackerOff ==
    /\ width = 0
    /\ height = 0
    /\ freeRects = <<>>
    /\ packItems = <<>>
    /\ sortedItems = <<>>
    /\ packIdx = 0
    /\ packedItems = <<>>
    /\ packRet = NullResult
    /\ packPc = "off"

---------------------------------------------------------------------------
(* helpers.ts: check3DFit *)

NoFit == [fits |-> FALSE, rotated |-> FALSE, orientation |-> "normal"]

\* the orientations array with the margin put on the item's length and width,
\* whichever role they play, instead of on the two footprint sides
OrientationsMarginOnLengthWidth(itemLengthCm, itemWidthCm, itemHeightCm, packagingMarginCm) ==
    << <<itemLengthCm + packagingMarginCm, itemWidthCm + packagingMarginCm, itemHeightCm, "normal">>,
       <<itemWidthCm + packagingMarginCm, itemLengthCm + packagingMarginCm, itemHeightCm, "rotated">>,
       <<itemLengthCm + packagingMarginCm, itemHeightCm, itemWidthCm + packagingMarginCm, "tiltedOnSide">>,
       <<itemHeightCm, itemLengthCm + packagingMarginCm, itemWidthCm + packagingMarginCm, "tiltedOnSideRotated">>,
       <<itemWidthCm + packagingMarginCm, itemHeightCm, itemLengthCm + packagingMarginCm, "tiltedOnEnd">>,
       <<itemHeightCm, itemWidthCm + packagingMarginCm, itemLengthCm + packagingMarginCm, "tiltedOnEndRotated">> >>

\* the orientations array with the margin taken off the footprint sides
OrientationsMarginTakenOff(itemLengthCm, itemWidthCm, itemHeightCm, packagingMarginCm) ==
    << <<itemLengthCm - packagingMarginCm, itemWidthCm - packagingMarginCm, itemHeightCm, "normal">>,
       <<itemWidthCm - packagingMarginCm, itemLengthCm - packagingMarginCm, itemHeightCm, "rotated">>,
       <<itemLengthCm - packagingMarginCm, itemHeightCm - packagingMarginCm, itemWidthCm, "tiltedOnSide">>,
       <<itemHeightCm - packagingMarginCm, itemLengthCm - packagingMarginCm, itemWidthCm, "tiltedOnSideRotated">>,
       <<itemWidthCm - packagingMarginCm, itemHeightCm - packagingMarginCm, itemLengthCm, "tiltedOnEnd">>,
       <<itemHeightCm - packagingMarginCm, itemWidthCm - packagingMarginCm, itemLengthCm, "tiltedOnEndRotated">> >>

\* the orientations array: <<footprintL, footprintW, resultingHeight, orientation>>
Orientations(itemLengthCm, itemWidthCm, itemHeightCm, packagingMarginCm) ==
    << <<itemLengthCm + packagingMarginCm, itemWidthCm + packagingMarginCm, itemHeightCm, "normal">>,
       <<itemWidthCm + packagingMarginCm, itemLengthCm + packagingMarginCm, itemHeightCm, "rotated">>,
       <<itemLengthCm + packagingMarginCm, itemHeightCm + packagingMarginCm, itemWidthCm, "tiltedOnSide">>,
       <<itemHeightCm + packagingMarginCm, itemLengthCm + packagingMarginCm, itemWidthCm, "tiltedOnSideRotated">>,
       <<itemWidthCm + packagingMarginCm, itemHeightCm + packagingMarginCm, itemLengthCm, "tiltedOnEnd">>,
       <<itemHeightCm + packagingMarginCm, itemWidthCm + packagingMarginCm, itemLengthCm, "tiltedOnEndRotated">> >>

RECURSIVE FirstFitFrom(_, _, _, _, _)
\* the loop over the orientations: return at the first that fits
FirstFitFrom(orientations, i, palletLengthCm, palletWidthCm, maxHeightCm) ==
    IF i > Len(orientations) THEN NoFit
    ELSE LET o == orientations[i]
         IN  IF o[1] <= palletLengthCm /\ o[2] <= palletWidthCm /\ o[3] <= maxHeightCm
             THEN [fits |-> TRUE, rotated |-> o[4] # "normal", orientation |-> o[4]]
             ELSE FirstFitFrom(orientations, i + 1, palletLengthCm, palletWidthCm, maxHeightCm)

Check3DFit(itemLengthCm, itemWidthCm, itemHeightCm, palletLengthCm, palletWidthCm, maxHeightCm, packagingMarginCm) ==
    FirstFitFrom(Orientations(itemLengthCm, itemWidthCm, itemHeightCm, packagingMarginCm),
                 1, palletLengthCm, palletWidthCm, maxHeightCm)

\* the arguments the fitter is exercised with
FitItemSides == {45, 75, 90, 115, 200}
FitPalletFootprints == {<<120, 80>>, <<80, 60>>, <<80, 120>>}
FitHeightBudgets == {165, 205}
FitMargins == {0, 5, 10}

FitInit ==
    /\ fitArgs \in [itemLengthCm : FitItemSides, itemWidthCm : FitItemSides,
                     itemHeightCm : FitItemSides,
                     pallet : FitPalletFootprints,
                     maxHeightCm : FitHeightBudgets,
                     packagingMarginCm : FitMargins]
    /\ fitResult = NoFit
    /\ fitPc = "call"

Check3DFitCall ==
    /\ fitPc = "call"
    /\ fitResult' = Check3DFit(fitArgs.itemLengthCm, fitArgs.itemWidthCm, fitArgs.itemHeightCm,
                               fitArgs.pallet[1], fitArgs.pallet[2], fitArgs.maxHeightCm,
                               fitArgs.packagingMarginCm)
    /\ fitPc' = "returned"
    /\ UNCHANGED fitArgs
    /\ UNCHANGED notFitVars

FitNext == Check3DFitCall

FitOff ==
    /\ fitArgs = <<>>
    /\ fitResult = NoFit
    /\ fitPc = "off"

---------------------------------------------------------------------------
(* helpers.ts: pallet dimensions, effective limits *)

\* palletDimensionsToCm: metres to centimetres.  A pallet's lengthM and widthM
\* are held in millimetres (1.2 m is 1200), the centimetres are whole numbers
\* for every pallet of the catalogues
PalletDimensionsToCm(pallet) ==
    [lengthCm |-> pallet.lengthM \div 10, widthCm |-> pallet.widthM \div 10]

\* as getEffectiveLimits, the lift option tested before the van option
GetEffectiveLimitsLiftFirst(options, palletMaxHeightCm, palletMaxWeightKg) ==
    LET maxHeightCm == Min2(220, palletMaxHeightCm)
        maxWeightKg == Min2(1500, palletMaxWeightKg)
    IN  IF options.lift
        THEN [maxHeightCm |-> maxHeightCm, maxWeightKg |-> Min2(750, maxWeightKg)]
        ELSE IF options.van35
             THEN [maxHeightCm |-> Min2(180, maxHeightCm), maxWeightKg |-> Min2(400, maxWeightKg)]
             ELSE [maxHeightCm |-> maxHeightCm, maxWeightKg |-> maxWeightKg]

GetEffectiveLimits(options, palletMaxHeightCm, palletMaxWeightKg) ==
    LET maxHeightCm == Min2(220, palletMaxHeightCm)
        maxWeightKg == Min2(1500, palletMaxWeightKg)
    IN  IF options.van35
        THEN [maxHeightCm |-> Min2(180, maxHeightCm), maxWeightKg |-> Min2(400, maxWeightKg)]
        ELSE IF options.lift
             THEN [maxHeightCm |-> maxHeightCm, maxWeightKg |-> Min2(750, maxWeightKg)]
             ELSE [maxHeightCm |-> maxHeightCm, maxWeightKg |-> maxWeightKg]

\* the 15 cm of the pallet base taken off the height limit
PALLET_BASE_HEIGHT_CM == 15

---------------------------------------------------------------------------
(* pricing.ts *)

NullRate == [isNull |-> TRUE, rate |-> 0]
Rate(r) == [isNull |-> FALSE, rate |-> r]

RECURSIVE FindTier(_, _, _)
\* tiers.find(tier => weightKg <= tier.maxWeightKg): the index, 0 when none
FindTier(tiers, i, weightKg) ==
    IF i > Len(tiers) THEN 0
    ELSE IF weightKg <= tiers[i].maxWeightKg THEN i
         ELSE FindTier(tiers, i + 1, weightKg)

\* rateTable.categories is a function on the categories the table holds
FindRate(rateTable, category, weightKg, distanceBand) ==
    IF category \notin DOMAIN rateTable.categories THEN NullRate
    ELSE LET tiers == rateTable.categories[category].tiers
             t == FindTier(tiers, 1, weightKg)
         IN  IF t = 0 THEN NullRate
             ELSE IF distanceBand \notin DOMAIN tiers[t].rates THEN NullRate
                  ELSE Rate(tiers[t].rates[distanceBand])

\* Decimal.toFixed(2) of a non-negative amount held in 1/10000 zloty: cents,
\* rounded half up (decimal.js rounds ROUND_HALF_UP by default)
ToFixed2FromE4(x) == (x + 50) \div 100

\* Decimal.toFixed(2) of a non-negative amount held in 1/1000000 zloty
ToFixed2FromE6(x) == (x + 5000) \div 10000

\* as calculatePrice, with the VAT taken on the net total already rounded to cents
CalculatePriceVatOnRoundedNet(baseRate, surcharges) ==
    LET afterMinimum == Max2(baseRate, surcharges.minimumNetPrice)
        fuelSurcharge == afterMinimum * surcharges.fuelPercent
        roadSurcharge == afterMinimum * surcharges.roadPercent
        netTotal == afterMinimum * 10000 + fuelSurcharge + roadSurcharge
        vat == ToFixed2FromE4(netTotal) * 100 * surcharges.vatPercent
        grossTotal == netTotal * 100 + vat
    IN  [baseRate |-> baseRate * 100,
         afterMinimum |-> afterMinimum * 100,
         fuelSurcharge |-> ToFixed2FromE4(fuelSurcharge),
         roadSurcharge |-> ToFixed2FromE4(roadSurcharge),
         netTotal |-> ToFixed2FromE4(netTotal),
         vat |-> ToFixed2FromE6(vat),
         grossTotal |-> ToFixed2FromE6(grossTotal)]

\* calculatePrice.  baseRate and minimumNetPrice are whole zloty, fuelPercent and
\* roadPercent are held in hundredths of a percent (20.02 % is 2002), vatPercent
\* in whole percent; the seven fields of the result are in cents
CalculatePrice(baseRate, surcharges) ==
    LET afterMinimum == Max2(baseRate, surcharges.minimumNetPrice)
        \* the next three in 1/10000 zloty
        fuelSurcharge == afterMinimum * surcharges.fuelPercent
        roadSurcharge == afterMinimum * surcharges.roadPercent
        netTotal == afterMinimum * 10000 + fuelSurcharge + roadSurcharge
        \* the next two in 1/1000000 zloty
        vat == netTotal * surcharges.vatPercent
        grossTotal == netTotal * 100 + vat
    IN  [baseRate |-> baseRate * 100,
         afterMinimum |-> afterMinimum * 100,
         fuelSurcharge |-> ToFixed2FromE4(fuelSurcharge),
         roadSurcharge |-> ToFixed2FromE4(roadSurcharge),
         netTotal |-> ToFixed2FromE4(netTotal),
         vat |-> ToFixed2FromE6(vat),
         grossTotal |-> ToFixed2FromE6(grossTotal)]

---------------------------------------------------------------------------
(* Configurations: the fixtures of tests/unit *)

Pallet(id, lengthM, widthM, maxHeightCm, maxWeightKg, category) ==
    [id |-> id, lengthM |-> lengthM, widthM |-> widthM, maxHeightCm |-> maxHeightCm,
     maxWeightKg |-> maxWeightKg, category |-> category]

Tier(maxWeightKg, le100, km101, km301, gt500) ==
    [maxWeightKg |-> maxWeightKg,
     rates |-> [LE_100 |-> le100, KM_101_300 |-> km101, KM_301_500 |-> km301, GT_500 |-> gt500]]

\* optimizer.test.ts: palletTypes
OptimizerTestPallets ==
    << Pallet("STANDARD_120x80", 1200, 800, 220, 1500, "STANDARD"),
       Pallet("HALF_80x60", 800, 600, 220, 150, "HALF"),
       Pallet("LONG_WIDE_240x80", 2400, 800, 220, 300, "LONG_WIDE"),
       Pallet("LONG_NARROW_265x45", 2650, 450, 220, 200, "LONG_NARROW"),
       Pallet("PALLET_120_120", 1200, 1200, 220, 300, "PALLET_120_120") >>

\* optimizer.test.ts: rateTable
OptimizerTestRates ==
    [categories |->
        [STANDARD |-> [tiers |-> << Tier(100, 67, 74, 75, 84), Tier(300, 79, 100, 108, 119) >>],
         HALF |-> [tiers |-> << Tier(150, 65, 66, 66, 67) >>],
         LONG_WIDE |-> [tiers |-> << Tier(300, 136, 155, 157, 175) >>],
         LONG_NARROW |-> [tiers |-> << Tier(200, 120, 149, 163, 184) >>],
         PALLET_120_120 |-> [tiers |-> << Tier(300, 94, 108, 120, 130) >>]]]

\* optimizer.test.ts: surcharges
OptimizerTestSurcharges ==
    [fuelPercent |-> 2002, roadPercent |-> 1443, vatPercent |-> 23, minimumNetPrice |-> 40]

\* binPacking.test.ts: mockPalletTypes
BinPackingTestPallets ==
    << Pallet("STANDARD", 1200, 800, 200, 1000, "STANDARD") >>

\* binPacking.test.ts: the STANDARD tiers of mockRateTable
BinPackingTestStandard ==
    [tiers |-> << Tier(100, 50, 60, 70, 80), Tier(500, 100, 120, 140, 160),
                  Tier(1500, 200, 240, 280, 320) >>]

\* binPacking.test.ts: mockRateTable, which holds the STANDARD category only
BinPackingTestRates == [categories |-> [STANDARD |-> BinPackingTestStandard]]

\* binPacking.test.ts: mockSurcharges
BinPackingTestSurcharges ==
    [fuelPercent |-> 0, roadPercent |-> 0, vatPercent |-> 23, minimumNetPrice |-> 10]

\* the five categories priced, STANDARD by the three tiers of binPacking.test.ts
MixedRates ==
    [categories |-> [OptimizerTestRates.categories EXCEPT !.STANDARD = BinPackingTestStandard]]

\* the table of optimizer.test.ts with the HALF tier ending at 50 kg, below
\* the 150 kg the pallet carries (as its STANDARD tiers end at 300 of 1500 kg)
ShortTierRates ==
    [categories |->
        [OptimizerTestRates.categories EXCEPT !.HALF = [tiers |-> << Tier(50, 65, 66, 66, 67) >>]]]

\* a table that prices HALF up to 50 kg and STANDARD up to 100 kg at three times
\* the HALF rate, and nothing else
TieRates ==
    [categories |->
        [STANDARD |-> [tiers |-> << Tier(100, 120, 186, 192, 210) >>],
         HALF |-> [tiers |-> << Tier(50, 40, 62, 64, 70) >>]]]

Config(pallets, rateTable, surcharges) ==
    [palletTypes |-> [pallets |-> pallets], rateTable |-> rateTable, surcharges |-> surcharges]

\* the surcharges of optimizer.test.ts with a floor of 70, above the lowest rates
\* of STANDARD (67) and HALF (65), which then cost the same
FloorSurcharges == [OptimizerTestSurcharges EXCEPT !.minimumNetPrice = 70]

\* the catalogue of optimizer.test.ts priced by the table of binPacking.test.ts,
\* which lacks four of its five categories
SparseConfig == Config(OptimizerTestPallets, BinPackingTestRates, BinPackingTestSurcharges)

\* the fixture of optimizer.test.ts, and the same under the higher floor; the
\* catalogue priced by the table that lacks categories; the fixture of
\* binPacking.test.ts
OptimizeConfigs ==
    { Config(OptimizerTestPallets, OptimizerTestRates, OptimizerTestSurcharges),
      Config(OptimizerTestPallets, OptimizerTestRates, FloorSurcharges),
      SparseConfig,
      Config(BinPackingTestPallets, BinPackingTestRates, BinPackingTestSurcharges) }

OptionSets ==
    { [lift |-> FALSE, van35 |-> FALSE], [lift |-> TRUE, van35 |-> FALSE],
      [lift |-> FALSE, van35 |-> TRUE] }

DistanceBands == {"LE_100", "GT_500"}

---------------------------------------------------------------------------
(* optimizer.ts *)

\* the reasons of one pallet, the rate not looked at
RejectionReasonsWithoutRate(fitResult1, weightKg, limits, rate) ==
    (IF ~fitResult1.fits THEN <<"OVERHANG">> ELSE <<>>)
    \o (IF weightKg > limits.maxWeightKg THEN <<"WEIGHT_LIMIT">> ELSE <<>>)

\* the reasons of one pallet, in push order
RejectionReasons(fitResult1, weightKg, limits, rate) ==
    (IF ~fitResult1.fits THEN <<"OVERHANG">> ELSE <<>>)
    \o (IF weightKg > limits.maxWeightKg THEN <<"WEIGHT_LIMIT">> ELSE <<>>)
    \o (IF rate.isNull THEN <<"NO_RATE_MATCH">> ELSE <<>>)

\* the fit check of optimize: the margin is put on the input's length and width
\* and check3DFit is called without a margin
OptimizeFit(input, pallet) ==
    LET effectiveLengthCm == input.lengthCm + input.packagingMarginCm
        effectiveWidthCm == input.widthCm + input.packagingMarginCm
        effectiveHeightCm == input.heightCm
        palletCm == PalletDimensionsToCm(pallet)
        limits == GetEffectiveLimits(input.options, pallet.maxHeightCm, pallet.maxWeightKg)
        availableHeightCm == limits.maxHeightCm - 15
    IN  Check3DFit(effectiveLengthCm, effectiveWidthCm, effectiveHeightCm,
                   palletCm.lengthCm, palletCm.widthCm, availableHeightCm, 0)

\* the candidates left in the order of the loop, as if the sort were missing
SortCandidatesLoopOrder(cs) == cs

\* candidates.sort by grossTotal, ascending, stable
SortCandidates(cs) ==
    SortDesc(cs, [i \in 1..Len(cs) |-> 0 - cs[i].priceBreakdown.grossTotal])

NoMatch == [isNull |-> TRUE, match |-> <<>>]
Match(c) == [isNull |-> FALSE, match |-> c]

OptItemSides == {45, 75, 90, 200}
OptWeights == {50, 120, 450}
OptMargins == {0, 10}

OptimizeInit ==
    /\ config \in OptimizeConfigs
    /\ optInput \in [lengthCm : OptItemSides, widthCm : OptItemSides, heightCm : OptItemSides,
                     weightKg : OptWeights, distanceBand : DistanceBands,
                     options : OptionSets, packagingMarginCm : OptMargins]
    /\ optIdx = 1
    /\ candidates = <<>>
    /\ rejected = <<>>
    /\ optRet = [recommended |-> NoMatch, alternatives |-> <<>>, rejected |-> <<>>]
    /\ optPc = "loop"

\* one iteration of the loop over palletTypes.pallets: the pallet is rejected
OptimizeReject ==
    /\ optPc = "loop"
    /\ optIdx <= Len(config.palletTypes.pallets)
    /\ LET pallet == config.palletTypes.pallets[optIdx]
           limits == GetEffectiveLimits(optInput.options, pallet.maxHeightCm, pallet.maxWeightKg)
           fitResult1 == OptimizeFit(optInput, pallet)
           rate == FindRate(config.rateTable, pallet.category, optInput.weightKg,
                            optInput.distanceBand)
           rejectionReasons == RejectionReasons(fitResult1, optInput.weightKg, limits, rate)
       IN  /\ Len(rejectionReasons) > 0
           /\ rejected' = Append(rejected, [pallet |-> pallet, reasons |-> rejectionReasons])
    /\ optIdx' = optIdx + 1
    /\ UNCHANGED <<optInput, candidates, optRet, optPc, config>>
    /\ UNCHANGED <<packerVars, fitVars, multiVars, limitsVars, priceVars, carryVars, pageVars>>

\* one iteration of the loop over palletTypes.pallets: the pallet is a candidate
OptimizeAccept ==
    /\ optPc = "loop"
    /\ optIdx <= Len(config.palletTypes.pallets)
    /\ LET pallet == config.palletTypes.pallets[optIdx]
           limits == GetEffectiveLimits(optInput.options, pallet.maxHeightCm, pallet.maxWeightKg)
           fitResult1 == OptimizeFit(optInput, pallet)
           rate == FindRate(config.rateTable, pallet.category, optInput.weightKg,
                            optInput.distanceBand)
           rejectionReasons == RejectionReasons(fitResult1, optInput.weightKg, limits, rate)
       IN  /\ Len(rejectionReasons) = 0
           /\ candidates' = Append(candidates,
                                   [pallet |-> pallet,
                                    fitsRotated |-> fitResult1.rotated,
                                    orientation |-> fitResult1.orientation,
                                    priceBreakdown |-> CalculatePrice(rate.rate, config.surcharges)])
    /\ optIdx' = optIdx + 1
    /\ UNCHANGED <<optInput, rejected, optRet, optPc, config>>
    /\ UNCHANGED <<packerVars, fitVars, multiVars, limitsVars, priceVars, carryVars, pageVars>>

\* after the loop: sort, recommended, alternatives
OptimizeReturn ==
    /\ optPc = "loop"
    /\ optIdx > Len(config.palletTypes.pallets)
    /\ LET sorted == SortCandidates(candidates)
       IN  /\ candidates' = sorted
           /\ optRet' = [recommended |-> IF Len(sorted) > 0 THEN Match(sorted[1]) ELSE NoMatch,
                         alternatives |-> SubSeq(sorted, 2, Min2(4, Len(sorted))),
                         rejected |-> rejected]
    /\ optPc' = "returned"
    /\ UNCHANGED <<optInput, optIdx, rejected, config>>
    /\ UNCHANGED <<packerVars, fitVars, multiVars, limitsVars, priceVars, carryVars, pageVars>>

OptimizeNext == OptimizeReject \/ OptimizeAccept \/ OptimizeReturn

OptOff ==
    /\ optInput = <<>>
    /\ optIdx = 0
    /\ candidates = <<>>
    /\ rejected = <<>>
    /\ optRet = [recommended |-> NoMatch, alternatives |-> <<>>, rejected |-> <<>>]
    /\ optPc = "off"

ConfigOff == config = <<>>

---------------------------------------------------------------------------
(* binPacking.ts: the joint fit *)

\* a whole pack call on a fresh Packer, as canAllFitOnOnePallet makes it
RECURSIVE PackLoop(_, _, _, _)
PackLoop(frs, sorted, i, packed) ==
    IF i > Len(sorted) THEN Placed(packed)
    ELSE LET item == sorted[i]
             bestNode == FindBestNode(frs, item.w, item.h)
         IN  IF bestNode.found
             THEN PackLoop(SplitFreeRects(frs, UsedNodeOf(bestNode)), sorted, i + 1,
                           Append(packed, PackedItemOf(item, bestNode)))
             ELSE NullResult

\* new Packer(surfaceWidth, surfaceHeight).pack(items)
PackOnFresh(surfaceWidth, surfaceHeight, items) ==
    PackLoop(<<[x |-> 0, y |-> 0, w |-> surfaceWidth, h |-> surfaceHeight]>>,
             SortItems(items), 1, <<>>)

GetEffectiveDimensions(item, marginCm) ==
    [lengthCm |-> item.lengthCm + marginCm,
     widthCm |-> item.widthCm + marginCm,
     heightCm |-> item.heightCm,
     weightKg |-> item.weightKg]

GetFootprintForOrientation(dims, orientation) ==
    CASE orientation = "normal" ->
            [length |-> dims.lengthCm, width |-> dims.widthCm, height |-> dims.heightCm]
      [] orientation = "rotated" ->
            [length |-> dims.widthCm, width |-> dims.lengthCm, height |-> dims.heightCm]
      [] orientation = "tiltedOnSide" ->
            [length |-> dims.lengthCm, width |-> dims.heightCm, height |-> dims.widthCm]
      [] orientation = "tiltedOnSideRotated" ->
            [length |-> dims.heightCm, width |-> dims.lengthCm, height |-> dims.widthCm]
      [] orientation = "tiltedOnEnd" ->
            [length |-> dims.widthCm, width |-> dims.heightCm, height |-> dims.lengthCm]
      [] orientation = "tiltedOnEndRotated" ->
            [length |-> dims.heightCm, width |-> dims.widthCm, height |-> dims.lengthCm]

RECURSIVE SumWeights(_, _)
\* items.reduce((sum, item) => sum + item.weightKg, 0), from index i on
SumWeights(items, i) ==
    IF i > Len(items) THEN 0 ELSE items[i].weightKg + SumWeights(items, i + 1)

TotalWeight(items) == SumWeights(items, 1)

\* the fit of one item in the first pass of canAllFitOnOnePallet
ItemFit(item, pallet, marginCm, options) ==
    LET palletCm == PalletDimensionsToCm(pallet)
        limits == GetEffectiveLimits(options, pallet.maxHeightCm, pallet.maxWeightKg)
        availableHeight == limits.maxHeightCm - PALLET_BASE_HEIGHT_CM
    IN  Check3DFit(item.lengthCm, item.widthCm, item.heightCm,
                   palletCm.lengthCm, palletCm.widthCm, availableHeight, marginCm)

\* preparedItems.push: the rectangle for the packer (w from the footprint's width,
\* h from its length; Math.round leaves whole centimetres as they are)
PreparedItem(item, pallet, marginCm, options) ==
    LET dims == GetEffectiveDimensions(item, marginCm)
        Prepared(orientation, footprint) ==
            [id |-> item.id, w |-> footprint.width, h |-> footprint.length,
             originalItem |-> item, orientation |-> orientation, footprint |-> footprint]
        Oriented(orientation) ==
            Prepared(orientation, GetFootprintForOrientation(dims, orientation))
    IN  Oriented(ItemFit(item, pallet, marginCm, options).orientation)

YOverlap(current, other) ==
    /\ current.y < other.y + other.height
    /\ current.y + current.height > other.y

RECURSIVE ScanRemaining(_, _, _, _, _)
\* for (i = remainingForGrouping.length - 1; i >= 0; i--): move what overlaps
\* current in Y from the remaining list to the group and to the queue
ScanRemaining(current, remaining, i, group, queue) ==
    IF i < 1 THEN [remaining |-> remaining, group |-> group, queue |-> queue]
    ELSE IF YOverlap(current, remaining[i])
         THEN ScanRemaining(current, RemoveAt(remaining, i), i - 1,
                            Append(group, remaining[i]), Append(queue, remaining[i]))
         ELSE ScanRemaining(current, remaining, i - 1, group, queue)

RECURSIVE DrainQueue(_, _, _)
\* while (queue.length > 0) { current = queue.pop(); ... }
DrainQueue(remaining, group, queue) ==
    IF Len(queue) = 0 THEN [remaining |-> remaining, group |-> group]
    ELSE LET current == queue[Len(queue)]
             r == ScanRemaining(current, remaining, Len(remaining), group,
                                SubSeq(queue, 1, Len(queue) - 1))
         IN  DrainQueue(r.remaining, r.group, r.queue)

\* every rectangle a group of its own
RowGroupsOfOne(remaining) == [i \in 1..Len(remaining) |-> <<remaining[i]>>]

RECURSIVE RowGroups(_)
\* while (remainingForGrouping.length > 0): sort by y, take the seed, grow its group
RowGroups(remaining) ==
    IF Len(remaining) = 0 THEN <<>>
    ELSE LET byY == SortDesc(remaining, [i \in 1..Len(remaining) |-> 0 - remaining[i].y])
             seed == byY[1]
             r == DrainQueue(SubSeq(byY, 2, Len(byY)), <<seed>>, <<seed>>)
         IN  <<r.group>> \o RowGroups(r.remaining)

MinOver(S) == CHOOSE m \in S : \A n \in S : m <= n
MaxOver(S) == CHOOSE m \in S : \A n \in S : m >= n

\* finalPositions.set for the members of one group, in order.  x is doubled:
\* 2 * (p.x + groupOffsetX) = 2 * p.x + (surfaceWidth - groupWidth) - 2 * minX
GroupPositions(group, surfaceWidth) ==
    LET minX == MinOver({group[i].x : i \in 1..Len(group)})
        maxX == MaxOver({group[i].x + group[i].width : i \in 1..Len(group)})
        groupWidth == maxX - minX
    IN  [i \in 1..Len(group) |->
            [id |-> group[i].id,
             x |-> 2 * group[i].x + (surfaceWidth - groupWidth) - 2 * minX,
             y |-> 2 * group[i].y]]

RECURSIVE AllGroupPositions(_, _, _)
AllGroupPositions(groups, i, surfaceWidth) ==
    IF i > Len(groups) THEN <<>>
    ELSE GroupPositions(groups[i], surfaceWidth) \o AllGroupPositions(groups, i + 1, surfaceWidth)

\* finalPositions.get(id): the last position set for the id
FinalPosition(sets, id) ==
    LET last == MaxOver({i \in 1..Len(sets) : sets[i].id = id})
    IN  sets[last]

\* preparedItems.find(p => p.id === id)
FindPrepared(preparedItems, id) ==
    preparedItems[MinOver({i \in 1..Len(preparedItems) : preparedItems[i].id = id})]

\* the placements built from the packer's result.  positionX and positionY are
\* doubled: the offsets halve an integer
Placements(packedResult, preparedItems, surfaceWidth, surfaceHeight) ==
    IF Len(packedResult) = 0 THEN <<>>
    ELSE LET minGlobalY == MinOver({packedResult[i].y : i \in 1..Len(packedResult)})
             maxGlobalY == MaxOver({packedResult[i].y + packedResult[i].height :
                                       i \in 1..Len(packedResult)})
             finalBoundingHeight == maxGlobalY - minGlobalY
             Placement(packed, original, pos, globalOffsetY2) ==
                [item |-> original.originalItem,
                 orientation |-> original.orientation,
                 footprintWidthCm |-> packed.width,
                 footprintLengthCm |-> packed.height,
                 heightCm |-> original.footprint.height,
                 positionX |-> pos.x,
                 positionY |-> pos.y + globalOffsetY2]
             Centred(sets, globalOffsetY2) ==
                [i \in 1..Len(packedResult) |->
                    Placement(packedResult[i],
                              FindPrepared(preparedItems, packedResult[i].id),
                              FinalPosition(sets, packedResult[i].id), globalOffsetY2)]
         IN  Centred(AllGroupPositions(RowGroups(packedResult), 1, surfaceWidth),
                     (surfaceHeight - finalBoundingHeight) - 2 * minGlobalY)

DoesNotFit == [fits |-> FALSE, placements |-> <<>>]

\* as the weight check, each item weighed against the limit on its own
OverWeightLimitPerItem(items, limits) ==
    \E i \in 1..Len(items) : items[i].weightKg > limits.maxWeightKg

\* totalWeight > limits.maxWeightKg, the first check of canAllFitOnOnePallet
OverWeightLimit(items, limits) == TotalWeight(items) > limits.maxWeightKg

\* canAllFitOnOnePallet (the warnings, labels and layout notes, which are texts
\* for display, are left out)
CanAllFitOnOnePallet(items, pallet, marginCm, options) ==
    LET limits == GetEffectiveLimits(options, pallet.maxHeightCm, pallet.maxWeightKg)
        PackerItem(prepared) == [id |-> prepared.id, w |-> prepared.w, h |-> prepared.h]
        Result(packedResult, preparedItems, palletCm) ==
            IF packedResult.isNull THEN DoesNotFit
            ELSE [fits |-> TRUE,
                  placements |-> Placements(packedResult.placed, preparedItems,
                                            palletCm.widthCm, palletCm.lengthCm)]
        Packed(preparedItems, palletCm) ==
            Result(PackOnFresh(palletCm.widthCm, palletCm.lengthCm,
                               [i \in 1..Len(items) |-> PackerItem(preparedItems[i])]),
                   preparedItems, palletCm)
    IN  IF OverWeightLimit(items, limits) THEN DoesNotFit
        ELSE IF \E i \in 1..Len(items) : ~ItemFit(items[i], pallet, marginCm, options).fits
        THEN DoesNotFit
        ELSE Packed([i \in 1..Len(items) |-> PreparedItem(items[i], pallet, marginCm, options)],
                    PalletDimensionsToCm(pallet))

---------------------------------------------------------------------------
(* binPacking.ts: optimizeMultiItem *)

\* findRate(rateTable, category, 50, distanceBand) || 999
ApproximateRate(rateTable, pallet, distanceBand) ==
    LET rate == FindRate(rateTable, pallet.category, 50, distanceBand)
    IN  IF rate.isNull \/ rate.rate = 0 THEN 999 ELSE rate.rate

\* the pallets left in catalogue order, as if the sort were missing
SortPalletsCatalogueOrder(pallets, rateTable, distanceBand) == pallets

\* [...palletTypes.pallets].sort((a, b) => rateA - rateB): ascending, stable
SortPallets(pallets, rateTable, distanceBand) ==
    SortDesc(pallets, [i \in 1..Len(pallets) |->
                          0 - ApproximateRate(rateTable, pallets[i], distanceBand)])

FootprintArea(item, marginCm) == (item.lengthCm + marginCm) * (item.widthCm + marginCm)

\* remainingItems.sort((a, b) => areaB - areaA): descending, stable
SortByArea(items, marginCm) ==
    SortDesc(items, [i \in 1..Len(items) |-> FootprintArea(items[i], marginCm)])

Allocation(pallet, placements, totalWeight, price) ==
    [pallet |-> pallet, items |-> placements, totalWeightKg |-> totalWeight,
     priceBreakdown |-> price]

NoAllocation ==
    [found |-> FALSE, count |-> 0, allocation |-> <<>>]

RECURSIVE FirstCount(_, _, _, _, _)
\* for (count = ...; count >= 1; count--): the first count whose first items
\* fit the pallet together and have a rate for their weight
FirstCount(remaining, pallet, count, input, cfg) ==
    IF count < 1 THEN NoAllocation
    ELSE LET itemsToTry == SubSeq(remaining, 1, count)
             Try(result, totalWeight, rate) ==
                IF result.fits /\ ~rate.isNull
                THEN [found |-> TRUE, count |-> count,
                      allocation |-> Allocation(pallet, result.placements, totalWeight,
                                                CalculatePrice(rate.rate, cfg.surcharges))]
                ELSE FirstCount(remaining, pallet, count - 1, input, cfg)
         IN  Try(CanAllFitOnOnePallet(itemsToTry, pallet, input.packagingMarginCm,
                                      input.options),
                 TotalWeight(itemsToTry),
                 FindRate(cfg.rateTable, pallet.category, TotalWeight(itemsToTry),
                          input.distanceBand))

(* costPerItem = parseFloat(price.grossTotal) / count is a division of IEEE 754
   double-precision numbers.  A double is mantissa x 2^(-shift) with the
   mantissa in [2^52, 2^53); mantissas are beyond the machine integer and are
   held as digits to the base 10000, least significant first. *)

RECURSIVE BigOf(_)
BigOf(n) == IF n = 0 THEN <<>> ELSE <<n % 10000>> \o BigOf(n \div 10000)

RECURSIVE BigTimesFrom(_, _, _, _)
BigTimesFrom(a, m, i, carry) ==
    IF i > Len(a) THEN (IF carry = 0 THEN <<>> ELSE <<carry>>)
    ELSE <<(a[i] * m + carry) % 10000>>
         \o BigTimesFrom(a, m, i + 1, (a[i] * m + carry) \div 10000)

\* a times m, for 0 < m < 10000
BigTimes(a, m) == BigTimesFrom(a, m, 1, 0)

RECURSIVE BigTrim(_)
\* without leading zero digits
BigTrim(a) ==
    IF Len(a) > 0 /\ a[Len(a)] = 0 THEN BigTrim(SubSeq(a, 1, Len(a) - 1)) ELSE a

RECURSIVE BigDivideFrom(_, _, _, _)
BigDivideFrom(a, d, i, rem) ==
    IF i < 1 THEN [quot |-> <<>>, rem |-> rem]
    ELSE LET Put(rest, digit) == [quot |-> Append(rest.quot, digit), rem |-> rest.rem]
         IN  Put(BigDivideFrom(a, d, i - 1, (rem * 10000 + a[i]) % d),
                 (rem * 10000 + a[i]) \div d)

\* quotient and remainder of a by d, for 0 < d < 10000
BigDivide(a, d) ==
    LET Trimmed(qr) == [quot |-> BigTrim(qr.quot), rem |-> qr.rem]
    IN  Trimmed(BigDivideFrom(a, d, Len(a), 0))

RECURSIVE BigPlusOneFrom(_, _)
BigPlusOneFrom(a, i) ==
    IF i > Len(a) THEN <<1>>
    ELSE IF a[i] < 9999 THEN <<a[i] + 1>> \o SubSeq(a, i + 1, Len(a))
         ELSE <<0>> \o BigPlusOneFrom(a, i + 1)

BigPlusOne(a) == BigPlusOneFrom(a, 1)

BigLess(a, b) ==
    \/ Len(a) < Len(b)
    \/ /\ Len(a) = Len(b)
       /\ \E i \in 1..Len(a) :
              a[i] < b[i] /\ \A j \in (i + 1)..Len(a) : a[j] = b[j]

\* 2^52 = 4503599627370496 and 2^53 = 9007199254740992
TwoTo52 == <<496, 2737, 5996, 4503>>
TwoTo53 == <<992, 5474, 1992, 9007>>

DoubleZero == [mantissa |-> <<>>, shift |-> 0]

RECURSIVE ToDouble(_, _, _)
\* the double nearest to n / (d x 2^shift), ties to the even mantissa, for
\* 0 < n < d x 2^53: n is doubled (twelve times at once while that is not too
\* much) until the quotient has 53 bits
ToDouble(n, d, shift) ==
    IF BigLess(BigTimes(n, 4096), BigTimes(TwoTo52, d))
    THEN ToDouble(BigTimes(n, 4096), d, shift + 12)
    ELSE IF BigLess(n, BigTimes(TwoTo52, d)) THEN ToDouble(BigTimes(n, 2), d, shift + 1)
    ELSE LET Rounded(qr) ==
                 IF 2 * qr.rem > d \/ (2 * qr.rem = d /\ qr.quot[1] % 2 = 1)
                 THEN BigPlusOne(qr.quot) ELSE qr.quot
             Normal(m) ==
                 IF m = TwoTo53 THEN [mantissa |-> TwoTo52, shift |-> shift - 1]
                 ELSE [mantissa |-> m, shift |-> shift]
         IN  Normal(Rounded(BigDivide(n, d)))

\* parseFloat of an amount printed with two decimals, given in cents
ParseFloat(cents) ==
    IF cents = 0 THEN DoubleZero ELSE ToDouble(BigOf(cents), 100, 0)

\* x / count
DoubleDividedBy(x, count) ==
    IF x.mantissa = <<>> THEN DoubleZero ELSE ToDouble(x.mantissa, count, x.shift)

\* x < y, for doubles that are not negative
DoubleLess(x, y) ==
    IF y.mantissa = <<>> THEN FALSE
    ELSE IF x.mantissa = <<>> THEN TRUE
         ELSE \/ x.shift > y.shift
              \/ x.shift = y.shift /\ BigLess(x.mantissa, y.mantissa)

\* parseFloat(price.grossTotal) / count
CostPerItem(grossCents, count) == DoubleDividedBy(ParseFloat(grossCents), count)

\* costPerItem < bestCostPerItem, with bestCostPerItem = Infinity while nothing
\* is found.  Quotients that differ as fractions differ by 1/1200 zloty or more,
\* far beyond the rounding of a double, and compare as the fractions do; equal
\* fractions are compared as the doubles the two divisions give
CheaperPerItem(c, best) ==
    \/ ~best.found
    \/ LET Less(g, k, bestG, bestK) ==
               IF g * bestK # bestG * k THEN g * bestK < bestG * k
               ELSE DoubleLess(CostPerItem(g, k), CostPerItem(bestG, bestK))
       IN  Less(c.allocation.priceBreakdown.grossTotal, c.count,
                best.allocation.priceBreakdown.grossTotal, best.count)

RECURSIVE BestAllocationFrom(_, _, _, _, _, _)
\* for (const pallet of sortedPallets) of one round of the while loop
BestAllocationFrom(pallets, i, best, remaining, input, cfg) ==
    IF i > Len(pallets) THEN best
    ELSE LET Better(c) == IF c.found /\ CheaperPerItem(c, best) THEN c ELSE best
         IN  BestAllocationFrom(pallets, i + 1,
                                Better(FirstCount(remaining, pallets[i],
                                                  Min2(Len(remaining), 4), input, cfg)),
                                remaining, input, cfg)

BestAllocation(pallets, remaining, input, cfg) ==
    BestAllocationFrom(pallets, 1, NoAllocation, remaining, input, cfg)

\* the filter letting every item through
WithoutIdsKeepsAll(items, allocatedIds) == items

\* the filter taking out the first remaining item only, whatever was allocated
WithoutIdsDropsFirstOnly(items, allocatedIds) == Tail(items)

\* remainingItems.filter(item => !allocatedIds.has(item.id))
WithoutIds(items, allocatedIds) == SelectSeq(items, LAMBDA item : item.id \notin allocatedIds)

RECURSIVE SumGross(_, _)
SumGross(allocs, i) ==
    IF i > Len(allocs) THEN 0
    ELSE allocs[i].priceBreakdown.grossTotal + SumGross(allocs, i + 1)

NoResult ==
    [allocations |-> <<>>, palletCount |-> 0, totalGross |-> 0, unallocated |-> <<>>,
     warnings |-> <<>>]

(* optimizeMultiItem as a function of its arguments: the steps below, composed *)

RECURSIVE Phase1From(_, _, _, _, _)
\* the first loop over sortedPallets from pallet i on: the allocation of all
\* items on the first pallet that takes them and has a rate for their weight
Phase1From(pallets, i, items, input, cfg) ==
    IF i > Len(pallets) THEN NoAllocation
    ELSE LET Try(result, totalWeight, rate) ==
                IF result.fits /\ ~rate.isNull
                THEN [found |-> TRUE, count |-> Len(items),
                      allocation |-> Allocation(pallets[i], result.placements, totalWeight,
                                                CalculatePrice(rate.rate, cfg.surcharges))]
                ELSE Phase1From(pallets, i + 1, items, input, cfg)
         IN  Try(CanAllFitOnOnePallet(items, pallets[i], input.packagingMarginCm,
                                      input.options),
                 TotalWeight(items),
                 FindRate(cfg.rateTable, pallets[i].category, TotalWeight(items),
                          input.distanceBand))

RECURSIVE Phase2From(_, _, _, _, _, _)
\* the while loop, from the remaining list and what was pushed so far
Phase2From(pallets, remaining, allocs, unalloc, input, cfg) ==
    IF Len(remaining) = 0 THEN [allocations |-> allocs, unallocated |-> unalloc]
    ELSE LET Round(best) ==
                IF best.found
                THEN Phase2From(pallets,
                                WithoutIds(remaining,
                                           {remaining[k].id : k \in 1..best.count}),
                                Append(allocs, best.allocation), unalloc, input, cfg)
                ELSE Phase2From(pallets, Tail(remaining), allocs,
                                Append(unalloc, [item |-> Head(remaining),
                                                 reason |-> "NO_FIT"]),
                                input, cfg)
         IN  Round(BestAllocation(pallets, remaining, input, cfg))

\* optimizeMultiItem(input, palletTypes, rateTable, surcharges), without the
\* warnings
OptimizeMultiItem(input, cfg) ==
    LET Totals(r) ==
            [allocations |-> r.allocations, palletCount |-> Len(r.allocations),
             totalGross |-> SumGross(r.allocations, 1), unallocated |-> r.unallocated]
        Phases(pallets, items, single) ==
            IF single.found
            THEN Totals([allocations |-> <<single.allocation>>, unallocated |-> <<>>])
            ELSE Totals(Phase2From(pallets, items, <<>>, <<>>, input, cfg))
        Sorted(pallets, items) ==
            Phases(pallets, items, Phase1From(pallets, 1, items, input, cfg))
    IN  Sorted(SortPallets(cfg.palletTypes.pallets, cfg.rateTable, input.distanceBand),
               SortByArea(input.items, input.packagingMarginCm))

\* the inputs optimizeMultiItem is exercised with
MaxItems == 3

\* furniture: two that share a standard pallet; one that fills it; a long one
\* that has to be tilted on it; a tall thin one that only a long pallet takes
\* lying down; a small one too heavy for some rate tables
ItemTypes ==
    << [lengthCm |-> 60, widthCm |-> 40, heightCm |-> 100, weightKg |-> 30],
       [lengthCm |-> 110, widthCm |-> 70, heightCm |-> 100, weightKg |-> 50],
       [lengthCm |-> 150, widthCm |-> 45, heightCm |-> 90, weightKg |-> 120],
       [lengthCm |-> 30, widthCm |-> 30, heightCm |-> 250, weightKg |-> 30],
       [lengthCm |-> 60, widthCm |-> 40, heightCm |-> 100, weightKg |-> 450] >>

FurnitureItem(id, t) ==
    [id |-> id, lengthCm |-> t.lengthCm, widthCm |-> t.widthCm, heightCm |-> t.heightCm,
     weightKg |-> t.weightKg]

\* the ids of a list of n items: all distinct, or one id used twice (the form
\* numbers new items from the length of the reloaded list)
IdPatterns(n) ==
    {f \in [1..n -> 1..n] :
        /\ \A i \in 1..n : f[i] <= i
        /\ Cardinality({i \in 1..n : f[i] # i}) <= 1}

\* the lists of n pieces of furniture, entered in the order of ItemTypes
TypeChoices(n) ==
    {ts \in [1..n -> 1..Len(ItemTypes)] : \A i \in 1..n : \A j \in i..n : ts[i] <= ts[j]}

ItemLists ==
    UNION {{[i \in 1..n |-> FurnitureItem(f[i], ItemTypes[ts[i]])] :
               ts \in TypeChoices(n), f \in IdPatterns(n)} : n \in 0..MaxItems}

MultiMargins == {0, 5}

\* optimizer.test.ts's catalogue priced by a table with weight tiers on STANDARD,
\* by one whose tiers end below what the pallets carry, and by one that lacks
\* categories; the fixture of binPacking.test.ts
MultiConfigs ==
    { Config(OptimizerTestPallets, MixedRates, OptimizerTestSurcharges),
      Config(OptimizerTestPallets, ShortTierRates, OptimizerTestSurcharges),
      SparseConfig,
      Config(BinPackingTestPallets, BinPackingTestRates, BinPackingTestSurcharges) }

\* four and five of the first piece of furniture, which go three to a STANDARD
\* pallet and one to a HALF pallet under TieRates
TieConfig == Config(OptimizerTestPallets, TieRates, OptimizerTestSurcharges)

TieLists == {[i \in 1..n |-> FurnitureItem(i, ItemTypes[1])] : n \in {4, 5}}

\* a board that a STANDARD pallet takes standing on end only, its length 2 cm
\* under the 205 cm left above the pallet base
BoardLists ==
    {<<[id |-> 1, lengthCm |-> 203, widthCm |-> 60, heightCm |-> 100, weightKg |-> 40]>>}

\* the calls: a configuration and an input
MultiCalls ==
    (MultiConfigs \X [items : ItemLists, distanceBand : DistanceBands,
                      options : OptionSets, packagingMarginCm : MultiMargins])
    \cup ({TieConfig} \X [items : TieLists, distanceBand : DistanceBands,
                          options : {[lift |-> FALSE, van35 |-> FALSE]},
                          packagingMarginCm : {0}])
    \cup ({Config(OptimizerTestPallets, MixedRates, OptimizerTestSurcharges)}
              \X [items : BoardLists, distanceBand : {"LE_100"}, options : OptionSets,
                  packagingMarginCm : MultiMargins])

\* the state at entry: warnings, allocations, unallocated empty,
\* remainingItems = [...input.items]
MultiInit ==
    /\ \E call \in MultiCalls : config = call[1] /\ multiInput = call[2]
    /\ remainingItems = multiInput.items
    /\ sortedPallets = <<>>
    /\ phase1Idx = 0
    /\ allocations = <<>>
    /\ unallocated = <<>>
    /\ warnings = <<>>
    /\ multiRet = NoResult
    /\ multiPc = "sort"

\* the two sorts
MultiSort ==
    /\ multiPc = "sort"
    /\ sortedPallets' = SortPallets(config.palletTypes.pallets, config.rateTable,
                                    multiInput.distanceBand)
    /\ remainingItems' = SortByArea(remainingItems, multiInput.packagingMarginCm)
    /\ phase1Idx' = 1
    /\ multiPc' = "phase1"
    /\ UNCHANGED <<multiInput, allocations, unallocated, warnings, multiRet, config>>
    /\ UNCHANGED notMultiVars

\* Phase1Commit with the break left out: the loop goes on to the next pallet
Phase1CommitWithoutBreak ==
    /\ multiPc = "phase1"
    /\ phase1Idx <= Len(sortedPallets)
    /\ LET pallet == sortedPallets[phase1Idx]
           totalWeight == TotalWeight(remainingItems)
       IN  \E result \in {CanAllFitOnOnePallet(remainingItems, pallet,
                                                multiInput.packagingMarginCm,
                                                multiInput.options)},
              rate \in {FindRate(config.rateTable, pallet.category, totalWeight,
                                 multiInput.distanceBand)} :
               /\ result.fits
               /\ ~rate.isNull
               /\ allocations' = Append(allocations,
                                        Allocation(pallet, result.placements, totalWeight,
                                                   CalculatePrice(rate.rate, config.surcharges)))
    /\ remainingItems' = <<>>
    /\ phase1Idx' = phase1Idx + 1
    /\ UNCHANGED <<multiInput, sortedPallets, multiPc, unallocated, warnings, multiRet, config>>
    /\ UNCHANGED notMultiVars

\* one iteration of the first loop over sortedPallets: everything fits and the
\* weight has a rate; push the allocation, empty remainingItems, break
Phase1Commit ==
    /\ multiPc = "phase1"
    /\ phase1Idx <= Len(sortedPallets)
    /\ LET pallet == sortedPallets[phase1Idx]
           totalWeight == TotalWeight(remainingItems)
       IN  \E result \in {CanAllFitOnOnePallet(remainingItems, pallet,
                                                multiInput.packagingMarginCm,
                                                multiInput.options)},
              rate \in {FindRate(config.rateTable, pallet.category, totalWeight,
                                 multiInput.distanceBand)} :
               /\ result.fits
               /\ ~rate.isNull
               /\ allocations' = Append(allocations,
                                        Allocation(pallet, result.placements, totalWeight,
                                                   CalculatePrice(rate.rate, config.surcharges)))
    /\ remainingItems' = <<>>
    /\ multiPc' = "totals"
    /\ UNCHANGED <<multiInput, sortedPallets, phase1Idx, unallocated, warnings, multiRet, config>>
    /\ UNCHANGED notMultiVars

\* one iteration of the first loop: no joint fit, or no rate for the weight
Phase1Skip ==
    /\ multiPc = "phase1"
    /\ phase1Idx <= Len(sortedPallets)
    /\ LET pallet == sortedPallets[phase1Idx]
           result == CanAllFitOnOnePallet(remainingItems, pallet,
                                          multiInput.packagingMarginCm, multiInput.options)
           rate == FindRate(config.rateTable, pallet.category, TotalWeight(remainingItems),
                            multiInput.distanceBand)
       IN  ~(result.fits /\ ~rate.isNull)
    /\ phase1Idx' = phase1Idx + 1
    /\ UNCHANGED <<multiInput, remainingItems, sortedPallets, allocations, unallocated,
                   warnings, multiRet, multiPc, config>>
    /\ UNCHANGED notMultiVars

\* the first loop ran out of pallets: if (remainingItems.length > 0), warn and
\* enter the while loop
Phase1Exhausted ==
    /\ multiPc = "phase1"
    /\ phase1Idx > Len(sortedPallets)
    /\ IF Len(remainingItems) > 0
       THEN /\ warnings' = Append(warnings, <<"NOT_ON_ONE_PALLET">>)
            /\ multiPc' = "phase2"
       ELSE /\ warnings' = warnings
            /\ multiPc' = "totals"
    /\ UNCHANGED <<multiInput, remainingItems, sortedPallets, phase1Idx, allocations,
                   unallocated, multiRet, config>>
    /\ UNCHANGED notMultiVars

\* one round of the while loop that finds an allocation: push it and filter its
\* items' ids out of remainingItems
Phase2Commit ==
    /\ multiPc = "phase2"
    /\ Len(remainingItems) > 0
    /\ \E best \in {BestAllocation(sortedPallets, remainingItems, multiInput, config)} :
           LET bestItemsAllocated == SubSeq(remainingItems, 1, best.count)
               allocatedIds == {bestItemsAllocated[i].id : i \in 1..Len(bestItemsAllocated)}
           IN  /\ best.found
               /\ allocations' = Append(allocations, best.allocation)
               /\ remainingItems' = WithoutIds(remainingItems, allocatedIds)
    /\ UNCHANGED <<multiInput, sortedPallets, phase1Idx, unallocated, warnings, multiRet,
                   multiPc, config>>
    /\ UNCHANGED notMultiVars

\* one round of the while loop that finds none: shift the first item to
\* unallocated (the warning names the item; its id stands for the name)
Phase2Unallocate ==
    /\ multiPc = "phase2"
    /\ Len(remainingItems) > 0
    /\ ~BestAllocation(sortedPallets, remainingItems, multiInput, config).found
    /\ unallocated' = Append(unallocated, [item |-> Head(remainingItems), reason |-> "NO_FIT"])
    /\ warnings' = Append(warnings, <<"NO_PALLET_FOR", Head(remainingItems).id>>)
    /\ remainingItems' = Tail(remainingItems)
    /\ UNCHANGED <<multiInput, sortedPallets, phase1Idx, allocations, multiRet, multiPc, config>>
    /\ UNCHANGED notMultiVars

\* the while loop ends
Phase2Done ==
    /\ multiPc = "phase2"
    /\ Len(remainingItems) = 0
    /\ multiPc' = "totals"
    /\ UNCHANGED <<multiInput, remainingItems, sortedPallets, phase1Idx, allocations,
                   unallocated, warnings, multiRet, config>>
    /\ UNCHANGED notMultiVars

\* the totals and the return
MultiReturn ==
    /\ multiPc = "totals"
    /\ multiRet' = [allocations |-> allocations, palletCount |-> Len(allocations),
                    totalGross |-> SumGross(allocations, 1), unallocated |-> unallocated,
                    warnings |-> warnings]
    /\ multiPc' = "returned"
    /\ UNCHANGED <<multiInput, remainingItems, sortedPallets, phase1Idx, allocations,
                   unallocated, warnings, config>>
    /\ UNCHANGED notMultiVars

MultiNext ==
    \/ MultiSort
    \/ Phase1Commit
    \/ Phase1Skip
    \/ Phase1Exhausted
    \/ Phase2Commit
    \/ Phase2Unallocate
    \/ Phase2Done
    \/ MultiReturn

MultiOff ==
    /\ multiInput = <<>>
    /\ remainingItems = <<>>
    /\ sortedPallets = <<>>
    /\ phase1Idx = 0
    /\ allocations = <<>>
    /\ unallocated = <<>>
    /\ warnings = <<>>
    /\ multiRet = NoResult
    /\ multiPc = "off"

---------------------------------------------------------------------------
(* helpers.ts: one call of getEffectiveLimits *)

Booleans == {TRUE, FALSE}

\* the limits pallets come with, around the thresholds 180 / 220 cm and
\* 400 / 750 / 1500 kg
LimitHeights == {150, 180, 200, 220, 250}
LimitWeights == {150, 300, 400, 750, 1000, 1500, 2000}

NoLimits == [maxHeightCm |-> 0, maxWeightKg |-> 0]

LimitsInit ==
    /\ limitsArgs \in [options : [lift : Booleans, van35 : Booleans],
                       palletMaxHeightCm : LimitHeights, palletMaxWeightKg : LimitWeights]
    /\ limitsResult = NoLimits
    /\ limitsPc = "call"

GetEffectiveLimitsCall ==
    /\ limitsPc = "call"
    /\ limitsResult' = GetEffectiveLimits(limitsArgs.options, limitsArgs.palletMaxHeightCm,
                                          limitsArgs.palletMaxWeightKg)
    /\ limitsPc' = "returned"
    /\ UNCHANGED limitsArgs
    /\ UNCHANGED notLimitsVars

LimitsNext == GetEffectiveLimitsCall

LimitsOff ==
    /\ limitsArgs = <<>>
    /\ limitsResult = NoLimits
    /\ limitsPc = "off"

---------------------------------------------------------------------------
(* pricing.ts: one call of calculatePrice *)

Surcharges(fuelPercent, roadPercent, vatPercent, minimumNetPrice) ==
    [fuelPercent |-> fuelPercent, roadPercent |-> roadPercent, vatPercent |-> vatPercent,
     minimumNetPrice |-> minimumNetPrice]

\* base rates below, at and above the floors, in whole zloty
PriceBaseRates == {0, 5, 9, 10, 11, 39, 40, 41, 67, 89, 100, 123, 250, 333, 517, 900}

\* the surcharges of the two test fixtures, and others with other percentages
PriceSurcharges ==
    { OptimizerTestSurcharges, BinPackingTestSurcharges,
      Surcharges(2002, 1443, 8, 0), Surcharges(1234, 567, 23, 46),
      Surcharges(333, 0, 5, 10), Surcharges(0, 1999, 23, 40) }

NoPrice ==
    [baseRate |-> 0, afterMinimum |-> 0, fuelSurcharge |-> 0, roadSurcharge |-> 0,
     netTotal |-> 0, vat |-> 0, grossTotal |-> 0]

PriceInit ==
    /\ priceArgs \in [baseRate : PriceBaseRates, surcharges : PriceSurcharges]
    /\ priceResult = NoPrice
    /\ pricePc = "call"

CalculatePriceCall ==
    /\ pricePc = "call"
    /\ priceResult' = CalculatePrice(priceArgs.baseRate, priceArgs.surcharges)
    /\ pricePc' = "returned"
    /\ UNCHANGED priceArgs
    /\ UNCHANGED notPriceVars

PriceNext == CalculatePriceCall

PriceOff ==
    /\ priceArgs = <<>>
    /\ priceResult = NoPrice
    /\ pricePc = "off"

---------------------------------------------------------------------------
(* carryService.ts: calculateCarryPrice.  A weight is held in tenths of a
   kilogram (100.5 kg is 1005), an amount in cents *)

CARRY_TIERS ==
    << [maxWeight |-> 45, price |-> 35], [maxWeight |-> 60, price |-> 42],
       [maxWeight |-> 75, price |-> 49], [maxWeight |-> 90, price |-> 57] >>

\* ratePerKg in hundredths of a zloty per kilogram
PER_KG_RATES ==
    [tier1 |-> [minWeight |-> 91, maxWeight |-> 240, ratePerKg |-> 60, minPrice |-> 57],
     tier2 |-> [minWeight |-> 241, maxWeight |-> 800, ratePerKg |-> 50, minPrice |-> 144]]

MAX_WEIGHT_KG == 800
SURCHARGE_AMOUNT == 60
SURCHARGE_WEIGHT_MIN == 100
SURCHARGE_WEIGHT_MAX == 168
MAX_DIMENSION_SUM_CM == 400
\* VAT_RATE 0.23, in percent
VAT_RATE == 23

RECURSIVE FindCarryTier(_, _)
\* CARRY_TIERS.find(tier => weightKg <= tier.maxWeight): the index, 0 when none
FindCarryTier(i, weight10) ==
    IF i > Len(CARRY_TIERS) THEN 0
    ELSE IF weight10 <= CARRY_TIERS[i].maxWeight * 10 THEN i
         ELSE FindCarryTier(i + 1, weight10)

\* as the base price, a tier ending strictly below its maxWeight
BasePriceBelowMaxWeight(weight10) ==
    IF weight10 < 450 THEN 3500
    ELSE IF weight10 < 600 THEN 4200
    ELSE IF weight10 < 750 THEN 4900
    ELSE IF weight10 < 900 THEN 5700
    ELSE IF weight10 < 2400 THEN Max2(weight10 * 6, 5700)
    ELSE IF weight10 < 8000 THEN Max2(weight10 * 5, 14400)
    ELSE 0

\* the base price in cents: weightKg x ratePerKg is (weight10 / 10) x (ratePerKg / 100)
\* zloty, which is weight10 x ratePerKg / 10 cents, a whole number for both rates
BasePrice(weight10) ==
    LET fixedTier == FindCarryTier(1, weight10)
    IN  IF fixedTier # 0 THEN CARRY_TIERS[fixedTier].price * 100
        ELSE IF weight10 <= PER_KG_RATES.tier1.maxWeight * 10
             THEN Max2((weight10 * PER_KG_RATES.tier1.ratePerKg) \div 10,
                       PER_KG_RATES.tier1.minPrice * 100)
             ELSE IF weight10 <= PER_KG_RATES.tier2.maxWeight * 10
                  THEN Max2((weight10 * PER_KG_RATES.tier2.ratePerKg) \div 10,
                            PER_KG_RATES.tier2.minPrice * 100)
                  ELSE 0

CarryUnavailable ==
    [available |-> FALSE, basePrice |-> 0, surcharge |-> 0, totalNet |-> 0, totalGross |-> 0,
     warnings |-> <<"OVER_MAX_WEIGHT">>]

CalculateCarryPrice(weight10, lengthCm, widthCm, heightCm) ==
    IF weight10 > MAX_WEIGHT_KG * 10 THEN CarryUnavailable
    ELSE LET basePrice == BasePrice(weight10)
             dimensionSum == lengthCm + widthCm + heightCm
             needsSurchargeWeight ==
                 weight10 >= SURCHARGE_WEIGHT_MIN * 10 /\ weight10 <= SURCHARGE_WEIGHT_MAX * 10
             needsSurchargeDimensions == dimensionSum > MAX_DIMENSION_SUM_CM
             surcharge == IF needsSurchargeWeight \/ needsSurchargeDimensions
                          THEN SURCHARGE_AMOUNT * 100 ELSE 0
             totalNet == basePrice + surcharge
             \* the next two in 1/10000 zloty
             vat == totalNet * VAT_RATE
             totalGross == totalNet * 100 + vat
         IN  [available |-> TRUE,
              basePrice |-> basePrice,
              surcharge |-> surcharge,
              totalNet |-> totalNet,
              totalGross |-> ToFixed2FromE4(totalGross),
              warnings |-> (IF needsSurchargeWeight THEN <<"SURCHARGE_WEIGHT">> ELSE <<>>)
                           \o (IF needsSurchargeDimensions THEN <<"SURCHARGE_DIMENSIONS">> ELSE <<>>)]

\* weights in tenths of a kilogram, on and around every threshold of the tiers
CarryWeights ==
    {0, 10, 300, 449, 450, 451, 599, 600, 601, 749, 750, 751, 899, 900, 901, 905, 949, 950,
     951, 999, 1000, 1680, 1681, 2000, 2399, 2400, 2401, 2879, 2880, 2881, 5000, 7999, 8000,
     8001, 8010, 12000}

\* length, width, height in cm: sums of 300, 400 and 401
CarryDimensions == {<<100, 100, 100>>, <<200, 100, 100>>, <<200, 150, 51>>}

NoCarryPrice ==
    [available |-> FALSE, basePrice |-> 0, surcharge |-> 0, totalNet |-> 0, totalGross |-> 0,
     warnings |-> <<>>]

CarryInit ==
    /\ carryArgs \in [weight10 : CarryWeights, dimensions : CarryDimensions]
    /\ carryResult = NoCarryPrice
    /\ carryPc = "call"

CalculateCarryPriceCall ==
    /\ carryPc = "call"
    /\ carryResult' = CalculateCarryPrice(carryArgs.weight10, carryArgs.dimensions[1],
                                          carryArgs.dimensions[2], carryArgs.dimensions[3])
    /\ carryPc' = "returned"
    /\ UNCHANGED carryArgs
    /\ UNCHANGED notCarryVars

CarryNext == CalculateCarryPriceCall

CarryOff ==
    /\ carryArgs = <<>>
    /\ carryResult = NoCarryPrice
    /\ carryPc = "off"

---------------------------------------------------------------------------
(* app/page.tsx: the item list of the page.  An item is held by its id (the n
   of 'item-n') and its name (<<"Mebel", n>> for 'Mebel n'); its dimensions and
   weight are copied from the form and never read by the list operations.
   The save effect runs after every change of the list, so each operation
   ends with the list written to localStorage. *)

MAX_ITEMS == 10

\* the largest value the id counter is let to reach
MaxIdCounter == 4

\* the names a rename types in
NewNames == {<<"Szafa", 0>>}

\* the page as first opened: no items, counter 0, and the empty list saved by
\* the save effect of the first render
PageInit ==
    /\ pageItems = <<>>
    /\ itemIdCounter = 0
    /\ localStorage = <<>>
    /\ pageOpen = TRUE

\* handleAddItem
HandleAddItem ==
    /\ pageOpen
    /\ Len(pageItems) < MAX_ITEMS
    /\ itemIdCounter < MaxIdCounter
    /\ itemIdCounter' = itemIdCounter + 1
    /\ pageItems' = Append(pageItems, [id |-> itemIdCounter + 1,
                                       name |-> <<"Mebel", Len(pageItems) + 1>>])
    /\ localStorage' = pageItems'
    /\ UNCHANGED pageOpen
    /\ UNCHANGED notPageVars

\* handleRemoveItem, from the button of one of the listed items
HandleRemoveItem ==
    /\ pageOpen
    /\ \E i \in 1..Len(pageItems) :
           pageItems' = SelectSeq(pageItems, LAMBDA item : item.id # pageItems[i].id)
    /\ localStorage' = pageItems'
    /\ UNCHANGED <<itemIdCounter, pageOpen>>
    /\ UNCHANGED notPageVars

\* handleRenameItem, from the name field of one of the listed items
HandleRenameItem ==
    /\ pageOpen
    /\ \E i \in 1..Len(pageItems), newName \in NewNames :
           pageItems' = [k \in 1..Len(pageItems) |->
                            IF pageItems[k].id = pageItems[i].id
                            THEN [pageItems[k] EXCEPT !.name = newName]
                            ELSE pageItems[k]]
    /\ localStorage' = pageItems'
    /\ UNCHANGED <<itemIdCounter, pageOpen>>
    /\ UNCHANGED notPageVars

\* handleReset
HandleReset ==
    /\ pageOpen
    /\ pageItems' = <<>>
    /\ localStorage' = pageItems'
    /\ UNCHANGED <<itemIdCounter, pageOpen>>
    /\ UNCHANGED notPageVars

\* the page loaded again: the module starts its counter at 0, Home starts with
\* no items, the load effect finds the saved list, restores it and sets the
\* counter to its length, and the save effect writes the list back
PageReload ==
    /\ pageOpen
    /\ pageItems' = localStorage
    /\ itemIdCounter' = Len(localStorage)
    /\ localStorage' = pageItems'
    /\ UNCHANGED pageOpen
    /\ UNCHANGED notPageVars

PageNext ==
    \/ HandleAddItem
    \/ HandleRemoveItem
    \/ HandleRenameItem
    \/ HandleReset
    \/ PageReload

PageOff ==
    /\ pageItems = <<>>
    /\ itemIdCounter = 0
    /\ localStorage = <<>>
    /\ pageOpen = FALSE

\* every call modelled on its own is switched off, and so is the page
PureCallsOff == LimitsOff /\ PriceOff /\ CarryOff /\ PageOff

---------------------------------------------------------------------------
(* Specifications *)

\* one Packer and one pack call on it
InitPacker == PackerInit /\ FitOff /\ ConfigOff /\ OptOff /\ MultiOff /\ PureCallsOff
SpecPacker == InitPacker /\ [][PackerNext]_vars

\* one call of check3DFit
InitFit == FitInit /\ PackerOff /\ ConfigOff /\ OptOff /\ MultiOff /\ PureCallsOff
SpecFit == InitFit /\ [][FitNext]_vars

\* one call of optimize
InitOptimize == OptimizeInit /\ PackerOff /\ FitOff /\ MultiOff /\ PureCallsOff
SpecOptimize == InitOptimize /\ [][OptimizeNext]_vars

\* a call of optimizeMultiItem
InitMulti == MultiInit /\ PackerOff /\ FitOff /\ OptOff /\ PureCallsOff

SpecMulti == InitMulti /\ [][MultiNext]_vars

\* the call is sorting or in one of its two loops
Computing == multiPc \in {"sort", "phase1", "phase2"}

\* The same call run to its end: the function is sequential code that nothing
\* suspends, so a step that can be taken is taken.  Where the step is decided
\* by the position alone that is weak fairness of the step.  While the call is
\* sorting or in a loop a step is always open (the sorts; commit or skip while
\* pallets are left; commit or unallocate while items remain), so weak fairness
\* of those steps is: the call is again and again past them, or it takes a step
\* again and again
MultiFairness ==
    /\ WF_vars(Phase1Exhausted)
    /\ WF_vars(Phase2Done)
    /\ WF_vars(MultiReturn)
    /\ ([]<>(~Computing) \/ []<><<MultiNext>>_vars)

SpecMultiFair == InitMulti /\ [][MultiNext]_vars /\ MultiFairness

\* a call of optimize or of optimizeMultiItem on the configuration whose rate
\* table lacks categories of the catalogue, run to its end
InitSparse == (InitOptimize \/ InitMulti) /\ config = SparseConfig

SparseNext ==
    \/ OptimizeReject
    \/ OptimizeAccept
    \/ OptimizeReturn
    \/ MultiSort
    \/ Phase1Commit
    \/ Phase1Skip
    \/ Phase1Exhausted
    \/ Phase2Commit
    \/ Phase2Unallocate
    \/ Phase2Done
    \/ MultiReturn

\* as MultiFairness, the loop of optimize included: while it runs, one of its
\* three steps is open
SparseFairness ==
    /\ WF_vars(Phase1Exhausted)
    /\ WF_vars(Phase2Done)
    /\ WF_vars(MultiReturn)
    /\ ([]<>(~Computing /\ optPc # "loop") \/ []<><<SparseNext>>_vars)

SpecSparse == InitSparse /\ [][SparseNext]_vars /\ SparseFairness

\* one call of getEffectiveLimits
InitLimits ==
    /\ LimitsInit /\ PackerOff /\ FitOff /\ ConfigOff /\ OptOff /\ MultiOff /\ PriceOff
    /\ CarryOff /\ PageOff
SpecLimits == InitLimits /\ [][LimitsNext]_vars

\* one call of calculatePrice
InitPrice ==
    /\ PriceInit /\ PackerOff /\ FitOff /\ ConfigOff /\ OptOff /\ MultiOff /\ LimitsOff
    /\ CarryOff /\ PageOff
SpecPrice == InitPrice /\ [][PriceNext]_vars

\* one call of calculateCarryPrice
InitCarry ==
    /\ CarryInit /\ PackerOff /\ FitOff /\ ConfigOff /\ OptOff /\ MultiOff /\ LimitsOff
    /\ PriceOff /\ PageOff
SpecCarry == InitCarry /\ [][CarryNext]_vars

\* the page, opened for the first time
InitPage ==
    /\ PageInit /\ PackerOff /\ FitOff /\ ConfigOff /\ OptOff /\ MultiOff /\ LimitsOff
    /\ PriceOff /\ CarryOff
SpecPage == InitPage /\ [][PageNext]_vars

---------------------------------------------------------------------------
(* Properties of the packer *)

Returned == packPc = "returned"
ReturnedPlacements == packPc = "returned" /\ ~packRet.isNull

Disjoint(p, q) ==
    \/ p.x + p.width <= q.x
    \/ q.x + q.width <= p.x
    \/ p.y + p.height <= q.y
    \/ q.y + q.height <= p.y

\* some free rectangle admits a w x h rectangle, as given or turned by 90 degrees
FitsSomewhere(frs, w, h) ==
    \E i \in 1..Len(frs) :
        \/ (frs[i].w >= w /\ frs[i].h >= h)
        \/ (frs[i].w >= h /\ frs[i].h >= w)

IsPermutationOf(s, t) ==
    /\ Len(s) = Len(t)
    /\ \E f \in [1..Len(s) -> 1..Len(s)] :
        /\ \A i, j \in 1..Len(s) : i # j => f[i] # f[j]
        /\ \A i \in 1..Len(s) : s[i] = t[f[i]]

\* C1: the placements of a non-null pack result of a fresh Packer are pairwise
\* disjoint: for any two of them one lies entirely left of, right of, above or
\* below the other.
C1_NoOverlap ==
    ReturnedPlacements =>
        \A i, j \in 1..Len(packRet.placed) :
            i # j => Disjoint(packRet.placed[i], packRet.placed[j])

\* three rectangles placed, one of them turned
C1_Witness ==
    /\ ReturnedPlacements
    /\ Len(packRet.placed) >= 3
    /\ \E i \in 1..Len(packRet.placed) : packRet.placed[i].rotated

\* C2: every placement of a non-null pack result of a fresh Packer(W, H) lies
\* within the surface: 0 <= x, x + width <= W, 0 <= y, y + height <= H.
C2_Containment ==
    ReturnedPlacements =>
        \A i \in 1..Len(packRet.placed) :
            LET p == packRet.placed[i]
            IN  /\ 0 <= p.x /\ p.x + p.width <= width
                /\ 0 <= p.y /\ p.y + p.height <= height

\* a placement that ends exactly on the far corner of the surface, next to others
C2_Witness ==
    /\ ReturnedPlacements
    /\ Len(packRet.placed) >= 2
    /\ \E i \in 1..Len(packRet.placed) :
        /\ packRet.placed[i].x + packRet.placed[i].width = width
        /\ packRet.placed[i].y + packRet.placed[i].height = height
        /\ packRet.placed[i].x > 0

\* the placement of an item: the item's id, its sides as given with
\* rotated = FALSE or swapped with rotated = TRUE
PlacementOfItem(p, item) ==
    /\ p.id = item.id
    /\ \/ (p.width = item.w /\ p.height = item.h /\ ~p.rotated)
       \/ (p.width = item.h /\ p.height = item.w /\ p.rotated)

DescendingLongSide(s) ==
    \A i, j \in 1..Len(s) : i < j => Max2(s[i].w, s[i].h) >= Max2(s[j].w, s[j].h)

\* C3: pack on a fresh Packer walks the items in descending max(w, h) order; it
\* places an item only when some free rectangle admits it in one of the two
\* orientations, returns null at the first item that none admits (and only
\* then), and otherwise returns exactly one placement per input item, with the
\* item's id and its (w, h) unrotated or (h, w) rotated.
C3_NullOrAll ==
    [][ /\ (packPc = "new" /\ packPc' = "loop") =>
            /\ IsPermutationOf(sortedItems', packItems')
            /\ DescendingLongSide(sortedItems')
        /\ (packPc = "loop" /\ packPc' = "loop") =>
            /\ FitsSomewhere(freeRects, sortedItems[packIdx].w, sortedItems[packIdx].h)
            /\ packedItems' = Append(packedItems, packedItems'[Len(packedItems')])
            /\ PlacementOfItem(packedItems'[Len(packedItems')], sortedItems[packIdx])
        /\ (packPc = "loop" /\ packPc' = "returned") =>
            /\ packRet'.isNull <=>
                    \E k \in 1..Len(sortedItems) :
                        /\ k = Len(packedItems) + 1
                        /\ ~FitsSomewhere(freeRects, sortedItems[k].w, sortedItems[k].h)
            /\ ~packRet'.isNull =>
                    /\ Len(packRet'.placed) = Len(packItems)
                    /\ \A i \in 1..Len(packItems) :
                        PlacementOfItem(packRet'.placed[i], sortedItems[i])
      ]_vars

\* null after two items were placed, one of them turned
C3_Witness ==
    /\ Returned
    /\ packRet.isNull
    /\ Len(packedItems) >= 2
    /\ \E i \in 1..Len(packedItems) : packedItems[i].rotated

---------------------------------------------------------------------------
(* Properties of the orientation fitter *)

OrientationOrder ==
    <<"normal", "rotated", "tiltedOnSide", "tiltedOnSideRotated", "tiltedOnEnd",
      "tiltedOnEndRotated">>

\* the table of the six orientations: footprint length, footprint width, height
FootLengthOf(o, L, W, H) ==
    CASE o = "normal" -> L [] o = "rotated" -> W [] o = "tiltedOnSide" -> L
      [] o = "tiltedOnSideRotated" -> H [] o = "tiltedOnEnd" -> W [] o = "tiltedOnEndRotated" -> H

FootWidthOf(o, L, W, H) ==
    CASE o = "normal" -> W [] o = "rotated" -> L [] o = "tiltedOnSide" -> H
      [] o = "tiltedOnSideRotated" -> L [] o = "tiltedOnEnd" -> H [] o = "tiltedOnEndRotated" -> W

HeightOf(o, L, W, H) ==
    CASE o = "normal" -> H [] o = "rotated" -> H [] o = "tiltedOnSide" -> W
      [] o = "tiltedOnSideRotated" -> W [] o = "tiltedOnEnd" -> L [] o = "tiltedOnEndRotated" -> L

\* orientation o qualifies: footprint plus margin within the pallet, height (no
\* margin) within the budget
Qualifies(o, L, W, H, palletL, palletW, maxH, m) ==
    /\ FootLengthOf(o, L, W, H) + m <= palletL
    /\ FootWidthOf(o, L, W, H) + m <= palletW
    /\ HeightOf(o, L, W, H) <= maxH

FitQualifies(k) ==
    Qualifies(OrientationOrder[k], fitArgs.itemLengthCm, fitArgs.itemWidthCm,
              fitArgs.itemHeightCm, fitArgs.pallet[1], fitArgs.pallet[2],
              fitArgs.maxHeightCm, fitArgs.packagingMarginCm)

\* C4: check3DFit returns fits = TRUE with the first orientation, in the order
\* normal, rotated, tiltedOnSide, tiltedOnSideRotated, tiltedOnEnd,
\* tiltedOnEndRotated, whose footprint plus margin is within the pallet and whose
\* height is within maxHeight (rotated being TRUE for all but normal); when none
\* qualifies it returns fits = FALSE, orientation normal, rotated = FALSE.
C4_FirstQualifying ==
    fitPc = "returned" =>
        IF \E k \in 1..6 : FitQualifies(k)
        THEN LET first == CHOOSE k \in 1..6 :
                              FitQualifies(k) /\ \A j \in 1..(k - 1) : ~FitQualifies(j)
             IN  /\ fitResult.fits
                 /\ fitResult.orientation = OrientationOrder[first]
                 /\ fitResult.rotated = (first # 1)
        ELSE fitResult = [fits |-> FALSE, rotated |-> FALSE, orientation |-> "normal"]

\* the last orientation of the order is returned, with a margin: the five before
\* it were tried and failed
C4_Witness ==
    /\ fitPc = "returned"
    /\ fitResult.fits
    /\ fitResult.orientation = "tiltedOnEndRotated"
    /\ fitArgs.packagingMarginCm > 0

---------------------------------------------------------------------------
(* Properties of optimize *)

\* the pallet is in the rejected list with the reason
MarkedWith(ret, pallet, reason) ==
    \E i \in 1..Len(ret.rejected) :
        /\ ret.rejected[i].pallet = pallet
        /\ \E r \in 1..Len(ret.rejected[i].reasons) : ret.rejected[i].reasons[r] = reason

\* some orientation of the table fits the pallet, the margin on the two footprint
\* sides and the height against the effective limit less the pallet base
SomeOrientationFits(input, pallet) ==
    LET palletCm == PalletDimensionsToCm(pallet)
        limits == GetEffectiveLimits(input.options, pallet.maxHeightCm, pallet.maxWeightKg)
    IN  \E k \in 1..6 :
            Qualifies(OrientationOrder[k], input.lengthCm, input.widthCm, input.heightCm,
                      palletCm.lengthCm, palletCm.widthCm,
                      limits.maxHeightCm - PALLET_BASE_HEIGHT_CM, input.packagingMarginCm)

\* C5: optimize marks a pallet OVERHANG exactly when no orientation of the
\* six-orientation table fits it with the packaging margin added to the two
\* footprint sides of the orientation and not to its height, the height being
\* compared with the effective maximum height less 15 cm.
C5_OverhangIffNoOrientation ==
    optPc = "returned" =>
        \A i \in 1..Len(config.palletTypes.pallets) :
            LET pallet == config.palletTypes.pallets[i]
            IN  MarkedWith(optRet, pallet, "OVERHANG") <=> ~SomeOrientationFits(optInput, pallet)

---------------------------------------------------------------------------
(* Properties of optimizeMultiItem *)

\* the entry of the fitter's orientations array for an item turned as named
FitterEntry(item, orientation, marginCm) ==
    LET os == Orientations(item.lengthCm, item.widthCm, item.heightCm, marginCm)
    IN  os[CHOOSE k \in 1..Len(os) : os[k][4] = orientation]

\* the placements of every allocation made so far
AllPlacements(allocs) ==
    UNION {{allocs[a].items[k] : k \in 1..Len(allocs[a].items)} : a \in 1..Len(allocs)}

\* C6: the rectangle the joint fit hands to the packer for an item is the
\* footprint of the orientation the fitter chose (both sides with the margin,
\* as the fitter compared them with the pallet; the packer may turn it), and
\* the placement's heightCm is that orientation's height, without margin
C6_PackerRectangleIsFittersFootprint ==
    \A p \in AllPlacements(allocations) :
        LET o == FitterEntry(p.item, p.orientation, multiInput.packagingMarginCm)
        IN  /\ \/ <<p.footprintLengthCm, p.footprintWidthCm>> = <<o[1], o[2]>>
               \/ <<p.footprintLengthCm, p.footprintWidthCm>> = <<o[2], o[1]>>
            /\ p.heightCm = o[3]

MultiReturned == multiPc = "returned"

\* the items as both phases see them, and the joint fit with a rate
SortedInput == SortByArea(multiInput.items, multiInput.packagingMarginCm)

JointFit(items, pallet) ==
    CanAllFitOnOnePallet(items, pallet, multiInput.packagingMarginCm, multiInput.options).fits

RateFor(items, pallet) ==
    FindRate(config.rateTable, pallet.category, TotalWeight(items), multiInput.distanceBand)

GrossFor(items, pallet) ==
    CalculatePrice(RateFor(items, pallet).rate, config.surcharges).grossTotal

Catalogue == config.palletTypes.pallets

\* pallet i of the catalogue comes before pallet j in the approximate-rate
\* order: a lower rate at 50 kg, or the same and earlier in the catalogue
BeforeInApproximateOrder(i, j) ==
    LET ri == ApproximateRate(config.rateTable, Catalogue[i], multiInput.distanceBand)
        rj == ApproximateRate(config.rateTable, Catalogue[j], multiInput.distanceBand)
    IN  ri < rj \/ (ri = rj /\ i < j)

\* the result is one allocation with a placement for every input item
SingleAllocationOfAll ==
    /\ Len(multiRet.allocations) = 1
    /\ Len(multiRet.allocations[1].items) = Len(multiInput.items)
    /\ Len(multiRet.unallocated) = 0

\* C7 as stated: a single allocation holding all items is on a pallet that no
\* other pallet taking all the items, with a rate for their weight, undercuts
\* in gross total
C7_CheapestValidPallet ==
    (MultiReturned /\ SingleAllocationOfAll) =>
        \A i \in 1..Len(Catalogue) :
            (JointFit(SortedInput, Catalogue[i]) /\ ~RateFor(SortedInput, Catalogue[i]).isNull)
                => GrossFor(SortedInput, Catalogue[i])
                      >= multiRet.allocations[1].priceBreakdown.grossTotal

\* C7, amended: a single allocation holding all items is on the first pallet,
\* in the approximate-rate order, that takes all the items and has a rate for
\* their weight
C7_FirstValidInApproximateOrder ==
    (MultiReturned /\ SingleAllocationOfAll) =>
        \E c \in 1..Len(Catalogue) :
            /\ multiRet.allocations[1].pallet = Catalogue[c]
            /\ \A i \in 1..Len(Catalogue) :
                  (JointFit(SortedInput, Catalogue[i])
                      /\ ~RateFor(SortedInput, Catalogue[i]).isNull)
                      => (i = c \/ BeforeInApproximateOrder(c, i))

\* several items on one pallet, chosen among at least two that would do
C7_Witness ==
    /\ MultiReturned
    /\ SingleAllocationOfAll
    /\ Len(multiInput.items) >= 2
    /\ \E i \in 1..Len(Catalogue) :
          /\ Catalogue[i] # multiRet.allocations[1].pallet
          /\ JointFit(SortedInput, Catalogue[i])
          /\ ~RateFor(SortedInput, Catalogue[i]).isNull

\* the catalogue pallets that pass a test, first in approximate-rate order
FirstInApproximateOrder(Passes(_)) ==
    {c \in 1..Len(Catalogue) :
        /\ Passes(Catalogue[c])
        /\ \A i \in 1..Len(Catalogue) : Passes(Catalogue[i]) => (i = c \/ BeforeInApproximateOrder(c, i))}

\* the result is the one allocation phase 1 makes on a pallet: a placement for
\* every item, nothing unallocated, the while loop not entered
CommittedInPhase1(pallet) ==
    /\ Len(multiRet.allocations) = 1
    /\ multiRet.allocations[1].pallet = pallet
    /\ multiRet.allocations[1].items
          = CanAllFitOnOnePallet(SortedInput, pallet, multiInput.packagingMarginCm,
                                 multiInput.options).placements
    /\ Len(multiRet.allocations[1].items) = Len(multiInput.items)
    /\ multiRet.unallocated = <<>>
    /\ multiRet.warnings = <<>>

FitsAll(pallet) == JointFit(SortedInput, pallet)

FitsAllWithRate(pallet) == JointFit(SortedInput, pallet) /\ ~RateFor(SortedInput, pallet).isNull

DistinctIds(items) ==
    \A i, j \in 1..Len(items) : items[i].id = items[j].id => i = j

\* how often an item is placed, and how often it is listed as unallocated
TimesPlaced(item) ==
    Cardinality(UNION {{<<a, k>> : k \in {k \in 1..Len(multiRet.allocations[a].items) :
                                            multiRet.allocations[a].items[k].item = item}} :
                       a \in 1..Len(multiRet.allocations)})

TimesUnallocated(item) ==
    Cardinality({u \in 1..Len(multiRet.unallocated) : multiRet.unallocated[u].item = item})

\* C9: with pairwise distinct ids, every input item is in the result exactly
\* once, as one placement of one allocation or as one unallocated entry
C9_EachItemExactlyOnce ==
    (MultiReturned /\ DistinctIds(multiInput.items)) =>
        \A i \in 1..Len(multiInput.items) :
            TimesPlaced(multiInput.items[i]) + TimesUnallocated(multiInput.items[i]) = 1

\* three items with distinct ids: two share a pallet, one is unallocated
C9_Witness ==
    /\ MultiReturned
    /\ DistinctIds(multiInput.items)
    /\ Len(multiInput.items) >= 3
    /\ Len(multiRet.unallocated) >= 1
    /\ \E a \in 1..Len(multiRet.allocations) : Len(multiRet.allocations[a].items) >= 2

\* some catalogue pallet takes the item alone and has a rate for its weight
FitsAlone(item) ==
    \E i \in 1..Len(Catalogue) :
        JointFit(<<item>>, Catalogue[i]) /\ ~RateFor(<<item>>, Catalogue[i]).isNull

ListedUnallocated(i) ==
    \E u \in 1..Len(multiRet.unallocated) :
        /\ multiRet.unallocated[u].item = multiInput.items[i]
        /\ multiRet.unallocated[u].reason = "NO_FIT"

\* C10: an item is listed unallocated (NO_FIT) exactly when no catalogue pallet
\* takes it alone with a rate for its weight
C10_UnallocatedIffFitsNowhere ==
    MultiReturned =>
        \A i \in 1..Len(multiInput.items) :
            ListedUnallocated(i) <=> ~FitsAlone(multiInput.items[i])

\* the same equivalence for the inputs whose ids are pairwise distinct
C10_HoldsForDistinctIds ==
    (MultiReturned /\ DistinctIds(multiInput.items)) =>
        \A i \in 1..Len(multiInput.items) :
            ListedUnallocated(i) <=> ~FitsAlone(multiInput.items[i])

---------------------------------------------------------------------------
(* Properties of optimizeMultiItem: weight, termination, rounds of phase 2 *)

\* the weight limit of a pallet under the options, spelled out
WeightLimitUnder(options, pallet) ==
    LET caps == {1500, pallet.maxWeightKg}
                \cup (IF options.van35 THEN {400} ELSE IF options.lift THEN {750} ELSE {})
    IN  CHOOSE m \in caps : \A c \in caps : m <= c

RECURSIVE PlacedWeight(_, _)
\* the weight of the items a list of placements holds, from index i on
PlacedWeight(placements, i) ==
    IF i > Len(placements) THEN 0
    ELSE placements[i].item.weightKg + PlacedWeight(placements, i + 1)

WithinWeightLimit(allocs) ==
    \A a \in 1..Len(allocs) :
        allocs[a].totalWeightKg <= WeightLimitUnder(multiInput.options, allocs[a].pallet)

\* C11: every allocation made, and every allocation of a result, has a total
\* weight that is at most the weight limit of its pallet under the options
\* (the least of 1500, the pallet's maxWeightKg, 400 with van35, else 750 with lift);
\* when the items have distinct ids that total is the weight of the items placed
C11_AllocationWeightWithinLimit ==
    /\ multiPc # "off" => WithinWeightLimit(allocations)
    /\ MultiReturned => WithinWeightLimit(multiRet.allocations)
    /\ MultiReturned /\ DistinctIds(multiInput.items) =>
        \A a \in 1..Len(multiRet.allocations) :
            PlacedWeight(multiRet.allocations[a].items, 1) = multiRet.allocations[a].totalWeightKg

\* two allocations on the same pallet type whose weights together exceed its
\* limit: the items were kept apart
C11_Witness ==
    /\ MultiReturned
    /\ Len(multiRet.unallocated) = 0
    /\ \E a, b \in 1..Len(multiRet.allocations) :
        /\ a < b
        /\ multiRet.allocations[a].pallet = multiRet.allocations[b].pallet
        /\ multiRet.allocations[a].totalWeightKg + multiRet.allocations[b].totalWeightKg
              > WeightLimitUnder(multiInput.options, multiRet.allocations[a].pallet)

\* a step of the while loop of phase 2
Phase2Round == multiPc = "phase2" /\ multiPc' = "phase2"

\* C12: every round of the phase-2 loop leaves strictly fewer remaining items,
\* the loop starts with no more items than the input has, so it makes at most
\* that many rounds, and the call returns
C12_Phase2Terminates ==
    /\ [][Phase2Round => Len(remainingItems') < Len(remainingItems)]_vars
    /\ [](multiPc = "phase2" => Len(remainingItems) <= Len(multiInput.items))
    /\ [](multiPc = "phase2" /\ Len(allocations) >= 2 =>
            Len(allocations) + Len(unallocated) + Len(remainingItems) <= Len(multiInput.items))
    /\ <>(multiPc = "returned")

\* a call that made as many rounds as it has items, of both kinds: three items,
\* two allocations and one item unallocated
C12_Witness ==
    /\ MultiReturned
    /\ Len(multiInput.items) = 3
    /\ Len(multiRet.allocations) = 2
    /\ Len(multiRet.unallocated) = 1

---------------------------------------------------------------------------
(* Properties of getEffectiveLimits *)

\* the least number of a finite non-empty set
Least(S) == CHOOSE m \in S : \A x \in S : m <= x

\* C13: the limits are min(220, pallet height) and min(1500, pallet weight);
\* with van35 the height is clamped to 180 and the weight to 400 whatever lift
\* is; without van35 and with lift the weight alone is clamped to 750; neither
\* limit is ever above the pallet's own
C13_EffectiveLimits ==
    limitsPc = "returned" =>
        LET o == limitsArgs.options
            h == limitsArgs.palletMaxHeightCm
            w == limitsArgs.palletMaxWeightKg
        IN  /\ o.van35 =>
                /\ limitsResult.maxHeightCm = Least({220, h, 180})
                /\ limitsResult.maxWeightKg = Least({1500, w, 400})
            /\ ~o.van35 /\ o.lift =>
                /\ limitsResult.maxHeightCm = Least({220, h})
                /\ limitsResult.maxWeightKg = Least({1500, w, 750})
            /\ ~o.van35 /\ ~o.lift =>
                /\ limitsResult.maxHeightCm = Least({220, h})
                /\ limitsResult.maxWeightKg = Least({1500, w})
            /\ limitsResult.maxHeightCm <= h
            /\ limitsResult.maxWeightKg <= w

\* both options set on a pallet that carries more than 750 kg and stands higher
\* than 180 cm: the van's limits are the ones returned
C13_Witness ==
    /\ limitsPc = "returned"
    /\ limitsArgs.options.van35 /\ limitsArgs.options.lift
    /\ limitsArgs.palletMaxWeightKg > 750
    /\ limitsArgs.palletMaxHeightCm > 180
    /\ limitsResult = [maxHeightCm |-> 180, maxWeightKg |-> 400]

---------------------------------------------------------------------------
(* Properties of optimize: rejection, ranking *)

OptReturned == optPc = "returned"

\* the reasons under which the result lists the pallet as rejected; empty when
\* it does not list it
ReasonsListed(ret, pallet) ==
    {ret.rejected[i].reasons[r] :
        <<i, r>> \in {<<i, r>> \in (1..Len(ret.rejected)) \X (1..3) :
                        /\ ret.rejected[i].pallet = pallet
                        /\ r <= Len(ret.rejected[i].reasons)}}

IsRejected(ret, pallet) == \E i \in 1..Len(ret.rejected) : ret.rejected[i].pallet = pallet

\* the pallet is the recommended one or an alternative
IsOffered(ret, pallet) ==
    \/ ~ret.recommended.isNull /\ ret.recommended.match.pallet = pallet
    \/ \E a \in 1..Len(ret.alternatives) : ret.alternatives[a].pallet = pallet

\* the conditions that hold of a pallet, Fails standing for the first
ConditionsHolding(input, pallet, Fails(_, _)) ==
    (IF Fails(input, pallet) THEN {"OVERHANG"} ELSE {})
    \cup (IF input.weightKg > WeightLimitUnder(input.options, pallet)
          THEN {"WEIGHT_LIMIT"} ELSE {})
    \cup (IF FindRate(config.rateTable, pallet.category, input.weightKg,
                      input.distanceBand).isNull
          THEN {"NO_RATE_MATCH"} ELSE {})

RejectedWithAllReasons(Fails(_, _)) ==
    OptReturned =>
        \A i \in 1..Len(config.palletTypes.pallets) :
            LET pallet == config.palletTypes.pallets[i]
                holding == ConditionsHolding(optInput, pallet, Fails)
            IN  /\ IsRejected(optRet, pallet) <=> holding # {}
                /\ ReasonsListed(optRet, pallet) = holding
                /\ \A r \in 1..Len(optRet.rejected) :
                       optRet.rejected[r].pallet = pallet =>
                           Len(optRet.rejected[r].reasons) = Cardinality(holding)
                /\ IsRejected(optRet, pallet) => ~IsOffered(optRet, pallet)

NoOrientationFits(input, pallet) == ~SomeOrientationFits(input, pallet)

\* what optimize itself takes for "no orientation fits"
OptimizeFitFails(input, pallet) == ~OptimizeFit(input, pallet).fits

\* C14: a catalogue pallet is in rejected exactly when a condition holds of it,
\* its reasons are all the conditions that hold, each once (OVERHANG: no
\* orientation fits; WEIGHT_LIMIT: the weight is over the effective limit;
\* NO_RATE_MATCH: the lookup finds no rate), and a rejected pallet is neither
\* recommended nor an alternative
C14_RejectedWithAllReasons == RejectedWithAllReasons(NoOrientationFits)

\* the same with OVERHANG read as "the fit check of optimize fails"
C14_HoldsOfTheFitCheckMade == RejectedWithAllReasons(OptimizeFitFails)

\* a pallet rejected for all three reasons at once
C14_ThreeReasons ==
    /\ OptReturned
    /\ \E r \in 1..Len(optRet.rejected) :
           optRet.rejected[r].reasons = <<"OVERHANG", "WEIGHT_LIMIT", "NO_RATE_MATCH">>

\* the catalogue pallets optimize accepted, by their place in the catalogue
AcceptedPallets ==
    {i \in 1..Len(config.palletTypes.pallets) :
        ~IsRejected(optRet, config.palletTypes.pallets[i])}

\* the gross total, in cents, of the price of the input on catalogue pallet i
GrossOn(i) ==
    CalculatePrice(FindRate(config.rateTable, config.palletTypes.pallets[i].category,
                            optInput.weightKg, optInput.distanceBand).rate,
                   config.surcharges).grossTotal

\* the place of accepted pallet i in ascending gross total, pallets of equal
\* gross total in catalogue order
RankOf(i) ==
    1 + Cardinality({j \in AcceptedPallets :
                        GrossOn(j) < GrossOn(i) \/ (GrossOn(j) = GrossOn(i) /\ j < i)})

\* C15: recommended is null exactly when no pallet is accepted; otherwise it is
\* the accepted pallet ranked first, of minimal gross total, and alternatives
\* are the accepted pallets ranked second to fourth, in that order, pallets of
\* equal gross total in catalogue order
C15_RecommendedAndAlternatives ==
    OptReturned =>
        /\ optRet.recommended.isNull <=> AcceptedPallets = {}
        /\ Len(optRet.alternatives) <= 3
        /\ \A i \in AcceptedPallets :
            LET pallet == config.palletTypes.pallets[i]
            IN  /\ RankOf(i) = 1 =>
                    /\ ~optRet.recommended.isNull
                    /\ optRet.recommended.match.pallet = pallet
                    /\ optRet.recommended.match.priceBreakdown.grossTotal = GrossOn(i)
                    /\ \A j \in AcceptedPallets : GrossOn(i) <= GrossOn(j)
                /\ RankOf(i) \in 2..4 =>
                    /\ Len(optRet.alternatives) >= RankOf(i) - 1
                    /\ optRet.alternatives[RankOf(i) - 1].pallet = pallet
                    /\ optRet.alternatives[RankOf(i) - 1].priceBreakdown.grossTotal = GrossOn(i)
                /\ RankOf(i) > 4 => ~IsOffered(optRet, pallet)
        /\ Len(optRet.alternatives) = Min2(3, Max2(0, Cardinality(AcceptedPallets) - 1))

\* five accepted pallets, the first two of the catalogue at the same gross total
\* and dearer pallets before a cheaper one in the catalogue: the first of the
\* two is recommended, three alternatives follow, the fifth is left out
C15_Witness ==
    /\ OptReturned
    /\ Cardinality(AcceptedPallets) = 5
    /\ GrossOn(1) = GrossOn(2)
    /\ RankOf(1) = 1 /\ RankOf(2) = 2
    /\ GrossOn(3) > GrossOn(5)
    /\ Len(optRet.alternatives) = 3
    /\ optRet.alternatives[1].pallet = config.palletTypes.pallets[2]

---------------------------------------------------------------------------
(* Properties of a catalogue with categories the rate table lacks *)

AbsentCategory(pallet) == pallet.category \notin DOMAIN config.rateTable.categories

NoneOnAbsentCategory(allocs) ==
    \A a \in 1..Len(allocs) : ~AbsentCategory(allocs[a].pallet)

\* the result accounts for everything: the pallet count, the total, and, the
\* ids being distinct, every item placed once or listed unallocated once
CompleteResult ==
    /\ multiRet.palletCount = Len(multiRet.allocations)
    /\ multiRet.totalGross = SumGross(multiRet.allocations, 1)
    /\ DistinctIds(multiInput.items) =>
        \A i \in 1..Len(multiInput.items) :
            TimesPlaced(multiInput.items[i]) + TimesUnallocated(multiInput.items[i]) = 1

\* C16: for a catalogue pallet whose category the rate table lacks, findRate
\* gives null for every weight and band asked; optimize lists the pallet as
\* rejected with NO_RATE_MATCH and does not offer it; optimizeMultiItem makes
\* no allocation on it and returns a complete result; both calls return
C16_AbsentCategoryIsNoRateMatch ==
    /\ [](\A i \in 1..Len(config.palletTypes.pallets) :
            AbsentCategory(config.palletTypes.pallets[i]) =>
                /\ \A w \in OptWeights \cup {0, 30, 50, 60, 900} : \A b \in DistanceBands :
                       FindRate(config.rateTable, config.palletTypes.pallets[i].category,
                                w, b).isNull
                /\ OptReturned =>
                       /\ MarkedWith(optRet, config.palletTypes.pallets[i], "NO_RATE_MATCH")
                       /\ ~IsOffered(optRet, config.palletTypes.pallets[i]))
    /\ [](multiPc # "off" => NoneOnAbsentCategory(allocations))
    /\ [](MultiReturned => NoneOnAbsentCategory(multiRet.allocations) /\ CompleteResult)
    /\ <>(OptReturned \/ MultiReturned)

\* an item that a pallet of an absent category would take alone, and no priced
\* pallet takes: it ends unallocated, next to an item that was allocated
C16_Witness ==
    /\ MultiReturned
    /\ Len(multiRet.allocations) >= 1
    /\ \E u \in 1..Len(multiRet.unallocated) :
        /\ \E i \in 1..Len(Catalogue) :
               /\ AbsentCategory(Catalogue[i])
               /\ JointFit(<<multiRet.unallocated[u].item>>, Catalogue[i])
        /\ \A i \in 1..Len(Catalogue) :
               ~AbsentCategory(Catalogue[i]) => ~JointFit(<<multiRet.unallocated[u].item>>, Catalogue[i])

---------------------------------------------------------------------------
(* Properties of check3DFit: the margin *)

\* the call made, with another margin
FitsWithMargin(m) ==
    Check3DFit(fitArgs.itemLengthCm, fitArgs.itemWidthCm, fitArgs.itemHeightCm,
               fitArgs.pallet[1], fitArgs.pallet[2], fitArgs.maxHeightCm, m).fits

\* C17: an item that fits with margin m fits, on the same pallet under the
\* same height budget, with every margin from 0 up to m - 1
C17_SmallerMarginStillFits ==
    (fitPc = "returned" /\ fitResult.fits) =>
        \A m \in 0..(fitArgs.packagingMarginCm - 1) : FitsWithMargin(m)

\* a fit with margin 10 that a larger margin would break, found in another
\* orientation than the one margin 0 gives
C17_Witness ==
    /\ fitPc = "returned"
    /\ fitResult.fits
    /\ fitArgs.packagingMarginCm = 10
    /\ \E m \in 11..40 : ~FitsWithMargin(m)
    /\ fitResult.orientation #
          Check3DFit(fitArgs.itemLengthCm, fitArgs.itemWidthCm, fitArgs.itemHeightCm,
                     fitArgs.pallet[1], fitArgs.pallet[2], fitArgs.maxHeightCm, 0).orientation

---------------------------------------------------------------------------
(* Properties of calculatePrice and calculateCarryPrice *)

\* cents is the amount x (in 1/unit zloty, unit a multiple of 100) rounded to
\* two decimals: no cent amount is nearer to x
RoundedToCents(cents, x, unit) ==
    LET c == cents * (unit \div 100)
        half == unit \div 200
    IN  c - x <= half /\ x - c <= half

\* C18: afterMinimum is the larger of baseRate and minimumNetPrice, the fuel
\* and road surcharges are afterMinimum times their percentages, netTotal is
\* the sum of the three, vat is netTotal times the VAT percentage, grossTotal is
\* netTotal plus vat, each computed from the unrounded values before it, and
\* each of the seven fields is its value to two decimals
C18_PriceBreakdown ==
    pricePc = "returned" =>
        LET sc == priceArgs.surcharges
            \* whole zloty
            afterMinimum == IF priceArgs.baseRate >= sc.minimumNetPrice
                            THEN priceArgs.baseRate ELSE sc.minimumNetPrice
            \* in 1/10000 zloty: the percentages are held in hundredths of a percent
            fuel == afterMinimum * sc.fuelPercent
            road == afterMinimum * sc.roadPercent
            net == afterMinimum * 10000 + fuel + road
            \* in 1/1000000 zloty: the VAT percentage is held in whole percent
            vat == net * sc.vatPercent
            gross == net * 100 + vat
        IN  /\ priceResult.baseRate = priceArgs.baseRate * 100
            /\ priceResult.afterMinimum = afterMinimum * 100
            /\ RoundedToCents(priceResult.fuelSurcharge, fuel, 10000)
            /\ RoundedToCents(priceResult.roadSurcharge, road, 10000)
            /\ RoundedToCents(priceResult.netTotal, net, 10000)
            /\ RoundedToCents(priceResult.vat, vat, 1000000)
            /\ RoundedToCents(priceResult.grossTotal, gross, 1000000)

\* a base rate under the floor, surcharges that are not whole cents, and a VAT
\* that differs from the VAT of the net total as reported
C18_Witness ==
    /\ pricePc = "returned"
    /\ priceArgs.baseRate < priceArgs.surcharges.minimumNetPrice
    /\ priceResult.afterMinimum = priceArgs.surcharges.minimumNetPrice * 100
    /\ (priceArgs.surcharges.minimumNetPrice * priceArgs.surcharges.fuelPercent) % 100 # 0
    /\ ~RoundedToCents(priceResult.vat,
                       priceResult.netTotal * 100 * priceArgs.surcharges.vatPercent, 1000000)

\* the larger of two amounts
Larger(a, b) == IF a >= b THEN a ELSE b

\* C19: the service is unavailable, with all four amounts 0.00, exactly when the
\* weight is over 800 kg; otherwise the base price is 35, 42, 49, 57 up to 45,
\* 60, 75, 90 kg, the larger of 0.60 a kilogram and 57 over 90 and up to 240 kg,
\* the larger of 0.50 a kilogram and 144 over 240 and up to 800 kg (weights in
\* tenths of a kilogram, amounts in cents)
C19_CarryPriceTiers ==
    carryPc = "returned" =>
        LET w == carryArgs.weight10
        IN  /\ ~carryResult.available <=> w > 8000
            /\ ~carryResult.available =>
                /\ carryResult.basePrice = 0
                /\ carryResult.surcharge = 0
                /\ carryResult.totalNet = 0
                /\ carryResult.totalGross = 0
            /\ w <= 450 => carryResult.basePrice = 3500
            /\ (450 < w /\ w <= 600) => carryResult.basePrice = 4200
            /\ (600 < w /\ w <= 750) => carryResult.basePrice = 4900
            /\ (750 < w /\ w <= 900) => carryResult.basePrice = 5700
            /\ (900 < w /\ w <= 2400) => carryResult.basePrice = Larger(6 * w, 5700)
            /\ (2400 < w /\ w <= 8000) => carryResult.basePrice = Larger(5 * w, 14400)

\* 240.1 kg: the second per-kilogram tier, where 0.50 a kilogram (120.05) is
\* under the tier's minimum
C19_Witness ==
    /\ carryPc = "returned"
    /\ carryArgs.weight10 = 2401
    /\ carryResult.available
    /\ carryResult.basePrice = 14400

---------------------------------------------------------------------------
(* The allocation a Phase-2 round commits *)

\* the first k remaining items fit the p-th pallet together and their weight
\* has a rate
GroupSucceeds(p, k) ==
    /\ CanAllFitOnOnePallet(SubSeq(remainingItems, 1, k), sortedPallets[p],
                            multiInput.packagingMarginCm, multiInput.options).fits
    /\ ~FindRate(config.rateTable, sortedPallets[p].category,
                 TotalWeight(SubSeq(remainingItems, 1, k)), multiInput.distanceBand).isNull

\* the largest group size that succeeds on the p-th pallet, 0 when none does
LargestGroup(p) ==
    LET Largest(sizes) == IF sizes = {} THEN 0 ELSE CHOOSE k \in sizes : \A j \in sizes : j <= k
    IN  Largest({k \in 1..Min2(Len(remainingItems), 4) : GroupSucceeds(p, k)})

\* the gross total, in cents, of the first k remaining items on the p-th pallet
GroupGross(p, k) ==
    CalculatePrice(FindRate(config.rateTable, sortedPallets[p].category,
                            TotalWeight(SubSeq(remainingItems, 1, k)),
                            multiInput.distanceBand).rate,
                   config.surcharges).grossTotal

\* the group sizes and gross totals of all pallets, in approximate-rate order
RoundGroups == [p \in 1..Len(sortedPallets) |-> LargestGroup(p)]
RoundGross(groups) ==
    [p \in 1..Len(sortedPallets) |-> IF groups[p] > 0 THEN GroupGross(p, groups[p]) ELSE 0]

\* pallet p has the lowest gross total per item, and no earlier pallet the same
LowestPerItem(p, groups, gross) ==
    /\ groups[p] > 0
    /\ \A q \in 1..Len(sortedPallets) :
           groups[q] > 0 =>
               /\ gross[p] * groups[q] <= gross[q] * groups[p]
               /\ q < p => gross[p] * groups[q] < gross[q] * groups[p]

\* the same of the quotients the code computes
LowestPerItemAsComputed(p, groups, gross) ==
    /\ groups[p] > 0
    /\ \A q \in 1..Len(sortedPallets) :
           groups[q] > 0 =>
               /\ ~DoubleLess(CostPerItem(gross[q], groups[q]), CostPerItem(gross[p], groups[p]))
               /\ q < p => DoubleLess(CostPerItem(gross[p], groups[p]),
                                      CostPerItem(gross[q], groups[q]))

\* the allocation is the p-th pallet carrying the first groups[p] remaining
\* items, one to four of them, at their gross total
AllocatesGroup(new, p, groups, gross) ==
    /\ new.pallet = sortedPallets[p]
    /\ groups[p] \in 1..4
    /\ Len(new.items) = groups[p]
    /\ {new.items[i].item : i \in 1..Len(new.items)}
         = {remainingItems[i] : i \in 1..groups[p]}
    /\ new.priceBreakdown.grossTotal = gross[p]

\* C20: on items with distinct ids, a Phase-2 round that commits pushes the
\* allocation of the pallet whose largest succeeding group (of at most four of
\* the first remaining items) has the lowest gross total per item, the earlier
\* pallet in approximate-rate order on equal quotients; the allocation holds
\* that prefix, 1 to 4 items
C20_CommitsLowestPerItemEarliestOnTies ==
    [][(Phase2Commit /\ DistinctIds(multiInput.items)) =>
         LET Claimed(new, groups, gross) ==
                 \E p \in 1..Len(sortedPallets) :
                     LowestPerItem(p, groups, gross) /\ AllocatesGroup(new, p, groups, gross)
         IN  Claimed(allocations'[Len(allocations')], RoundGroups, RoundGross(RoundGroups))]_vars

\* the same with the quotients compared as the doubles the code divides
C20_CommitsLowestQuotientAsComputed ==
    [][(Phase2Commit /\ DistinctIds(multiInput.items)) =>
         LET Computed(new, groups, gross) ==
                 \E p \in 1..Len(sortedPallets) :
                     /\ LowestPerItemAsComputed(p, groups, gross)
                     /\ AllocatesGroup(new, p, groups, gross)
         IN  Computed(allocations'[Len(allocations')], RoundGroups, RoundGross(RoundGroups))]_vars

\* a round in which a later pallet's group of three costs per item exactly what
\* an earlier pallet's single item costs, and five items remain
C20_TieWithGroupOfThree ==
    /\ multiPc = "phase2"
    /\ Len(remainingItems) = 5
    /\ \E p, q \in 1..Len(sortedPallets) :
           /\ p < q
           /\ LargestGroup(p) = 1
           /\ LargestGroup(q) = 3
           /\ 3 * GroupGross(p, 1) = GroupGross(q, 3)

\* the later pallet's group of three was committed in that round
C20_LaterPalletWonTheTie ==
    /\ config = TieConfig
    /\ Len(multiInput.items) = 4
    /\ Len(allocations) = 1
    /\ allocations[1].pallet.category = "STANDARD"
    /\ Len(allocations[1].items) = 3
    /\ Len(remainingItems) = 1

---------------------------------------------------------------------------
(* The centring of the placements of an allocation.  positionX and positionY
   are held doubled, so every edge below is doubled *)

LeftEdge(p) == p.positionX
RightEdge(p) == p.positionX + 2 * p.footprintWidthCm
TopEdge(p) == p.positionY
BottomEdge(p) == p.positionY + 2 * p.footprintLengthCm

\* the Y intervals of two placements strictly overlap
RowsOverlap(p, q) == TopEdge(p) < BottomEdge(q) /\ TopEdge(q) < BottomEdge(p)

RECURSIVE RowGroupFrom(_, _)
\* the placements reached from those of S through overlapping Y intervals
RowGroupFrom(ps, S) ==
    LET Grown(T) == IF T = S THEN S ELSE RowGroupFrom(ps, T)
    IN  Grown(S \cup {j \in 1..Len(ps) : \E i \in S : RowsOverlap(ps[i], ps[j])})

\* the group around placement i is horizontally centred on a pallet of the width
HorizontallyCentred(ps, group, widthCm) ==
    MinOver({LeftEdge(ps[i]) : i \in group})
        = 2 * widthCm - MaxOver({RightEdge(ps[i]) : i \in group})

VerticallyCentred(ps, lengthCm) ==
    MinOver({TopEdge(ps[i]) : i \in 1..Len(ps)})
        = 2 * lengthCm - MaxOver({BottomEdge(ps[i]) : i \in 1..Len(ps)})

CentredOn(ps, palletCm) ==
    Len(ps) > 0 =>
        /\ \A i \in 1..Len(ps) :
               HorizontallyCentred(ps, RowGroupFrom(ps, {i}), palletCm.widthCm)
        /\ VerticallyCentred(ps, palletCm.lengthCm)

\* C21: in every allocation each row group (the placements connected through
\* strictly overlapping Y intervals) has equal gaps to the left and to the
\* right on the pallet's width, and the whole layout has equal gaps above and
\* below on the pallet's length
C21_RowGroupsCentred ==
    \A a \in 1..Len(allocations) :
        CentredOn(allocations[a].items, PalletDimensionsToCm(allocations[a].pallet))

\* the same for allocations of items with distinct ids
C21_HoldsForDistinctIds ==
    DistinctIds(multiInput.items) => C21_RowGroupsCentred

\* an allocation with two row groups of different widths, each centred
C21_TwoRowGroups ==
    /\ DistinctIds(multiInput.items)
    /\ \E a \in 1..Len(allocations) :
           \E i, j \in 1..Len(allocations[a].items) :
               LET ps == allocations[a].items
               IN  /\ j \notin RowGroupFrom(ps, {i})
                   /\ LeftEdge(ps[i]) = 0
                   /\ MinOver({LeftEdge(ps[k]) : k \in RowGroupFrom(ps, {j})}) > 0

---------------------------------------------------------------------------
(* The free rectangles of the packer *)

\* the unit cells of the surface, named by their corner nearest the origin;
\* all coordinates are whole, so a point is free exactly when its cell is
SurfaceCells == (0..(width - 1)) \X (0..(height - 1))

CellInFree(c, r) ==
    r.x <= c[1] /\ c[1] < r.x + r.w /\ r.y <= c[2] /\ c[2] < r.y + r.h

CellInPlaced(c, p) ==
    p.x <= c[1] /\ c[1] < p.x + p.width /\ p.y <= c[2] /\ c[2] < p.y + p.height

\* the free rectangle has positive area, lies within the surface and shares no
\* area with a placed rectangle
FreeOfPlacements(r) ==
    /\ r.w > 0 /\ r.h > 0
    /\ 0 <= r.x /\ r.x + r.w <= width
    /\ 0 <= r.y /\ r.y + r.h <= height
    /\ \A k \in 1..Len(packedItems) : ~Intersect(UsedNodeOf(packedItems[k]), r)

\* C22: after every placement step of pack every free rectangle has positive
\* area, lies within the surface and shares no area with a placed rectangle;
\* every point of the surface not under a placed rectangle lies in some free
\* rectangle; and no free rectangle is contained in another one of the list
C22_FreeRectsDescribeFreeArea ==
    packPc \in {"loop", "returned"} =>
        /\ \A i \in 1..Len(freeRects) : FreeOfPlacements(freeRects[i])
        /\ \A c \in SurfaceCells :
               \/ \E k \in 1..Len(packedItems) : CellInPlaced(c, packedItems[k])
               \/ \E i \in 1..Len(freeRects) : CellInFree(c, freeRects[i])
        /\ \A i, j \in 1..Len(freeRects) :
               i # j => ~IsContained(freeRects[i], freeRects[j])

\* two rectangles placed, with two free rectangles left that share area, and a
\* free cell that only one of them holds
C22_Witness ==
    /\ packPc = "loop"
    /\ Len(packedItems) >= 2
    /\ \E i, j \in 1..Len(freeRects) :
           /\ i # j
           /\ Intersect(freeRects[i], freeRects[j])
           /\ \E c \in SurfaceCells :
                  CellInFree(c, freeRects[i]) /\ ~CellInFree(c, freeRects[j])

---------------------------------------------------------------------------
(* The Packer after a pack call that returned null *)

\* the free list of the Packer before the call: that of the constructor
FreeRectsBeforeCall == <<[x |-> 0, y |-> 0, w |-> width, h |-> height]>>

\* a later pack call of one rectangle on this instance returns what it returns
\* on a Packer that never saw the failed batch
LaterCallAsOnFresh ==
    \A later \in {<<[r EXCEPT !.id = 1]>> : r \in RectItems} :
        PackLoop(freeRects, SortItems(later), 1, <<>>) = PackOnFresh(width, height, later)

\* C23: when pack returns null the free-rectangle list is the list the Packer
\* had before the call, and a later pack call on the instance behaves as on a
\* Packer that never saw the failed batch
C23_NullLeavesPackerUntouched ==
    (Returned /\ packRet.isNull) =>
        /\ freeRects = FreeRectsBeforeCall
        /\ LaterCallAsOnFresh

\* a failed batch after which a rectangle that a fresh Packer takes is refused
C23_LaterCallRefused ==
    /\ Returned
    /\ packRet.isNull
    /\ \E r \in RectItems :
           /\ PackLoop(freeRects, <<[r EXCEPT !.id = 1]>>, 1, <<>>).isNull
           /\ ~PackOnFresh(width, height, <<[r EXCEPT !.id = 1]>>).isNull

\* null at the first rectangle of the batch leaves the free list as it was
C23_UntouchedWhenFirstFails ==
    (Returned /\ packRet.isNull /\ Len(packedItems) = 0) =>
        freeRects = FreeRectsBeforeCall /\ LaterCallAsOnFresh

---------------------------------------------------------------------------
(* The height of the placements *)

\* the height left for the load on the pallet under the options of the call
HeightBudget(pallet) ==
    GetEffectiveLimits(multiInput.options, pallet.maxHeightCm, pallet.maxWeightKg).maxHeightCm
        - PALLET_BASE_HEIGHT_CM

\* C24: in every allocation each placement's heightCm is at most the height
\* budget of its pallet: the effective height limit under the options less the
\* 15 cm of the pallet base
C24_PlacementHeightWithinBudget ==
    \A a \in 1..Len(allocations) :
        \A k \in 1..Len(allocations[a].items) :
            allocations[a].items[k].heightCm <= HeightBudget(allocations[a].pallet)

\* the side of the item that stands upright in the placement's orientation, as
\* entered, is within the budget
C24_UprightSideWithinBudget ==
    \A a \in 1..Len(allocations) :
        \A k \in 1..Len(allocations[a].items) :
            LET p == allocations[a].items[k]
            IN  HeightOf(p.orientation, p.item.lengthCm, p.item.widthCm, p.item.heightCm)
                    <= HeightBudget(allocations[a].pallet)

\* a tilted placement reported higher than its budget
C24_TiltedOverBudget ==
    \E a \in 1..Len(allocations) :
        \E k \in 1..Len(allocations[a].items) :
            /\ allocations[a].items[k].orientation \notin {"normal", "rotated"}
            /\ allocations[a].items[k].heightCm > HeightBudget(allocations[a].pallet)

---------------------------------------------------------------------------
(* The rectangles of an allocation after the centring (edges doubled) *)

ApartAfterCentring(p, q) ==
    \/ RightEdge(p) <= LeftEdge(q)
    \/ RightEdge(q) <= LeftEdge(p)
    \/ BottomEdge(p) <= TopEdge(q)
    \/ BottomEdge(q) <= TopEdge(p)

OnThePallet(p, palletCm) ==
    /\ 0 <= LeftEdge(p) /\ RightEdge(p) <= 2 * palletCm.widthCm
    /\ 0 <= TopEdge(p) /\ BottomEdge(p) <= 2 * palletCm.lengthCm

\* C25: for items with distinct ids, the final rectangles of every allocation
\* (positionX, positionY, footprintWidthCm, footprintLengthCm) are pairwise
\* non-overlapping and each lies within the pallet's width and length
C25_CentringKeepsPackerGuarantees ==
    DistinctIds(multiInput.items) =>
        \A a \in 1..Len(allocations) :
            LET ps == allocations[a].items
            IN  /\ \A i, j \in 1..Len(ps) : i # j => ApartAfterCentring(ps[i], ps[j])
                /\ \A i \in 1..Len(ps) :
                       OnThePallet(ps[i], PalletDimensionsToCm(allocations[a].pallet))

\* three placements on one pallet: two side by side in one row group, the third
\* in a row of its own and moved off the left edge by the centring
C25_Witness ==
    /\ DistinctIds(multiInput.items)
    /\ \E a \in 1..Len(allocations) :
           LET ps == allocations[a].items
           IN  /\ Len(ps) >= 3
               /\ \E i, j, k \in 1..Len(ps) :
                      /\ i # j
                      /\ RowsOverlap(ps[i], ps[j])
                      /\ RowGroupFrom(ps, {k}) = {k}
                      /\ LeftEdge(ps[k]) > 0

---------------------------------------------------------------------------
(* The order of the items in the input *)

\* the lists holding the items of the list in any order
Reorderings(items) ==
    {[i \in 1..Len(items) |-> items[f[i]]] :
        f \in {g \in [1..Len(items) -> 1..Len(items)] :
                  \A i, j \in 1..Len(items) : i # j => g[i] # g[j]}}

UnallocatedItems(result) == {result.unallocated[i].item : i \in 1..Len(result.unallocated)}

SameOutcome(r, ret) ==
    /\ r.palletCount = ret.palletCount
    /\ r.totalGross = ret.totalGross
    /\ UnallocatedItems(r) = UnallocatedItems(ret)

\* C26: for items with distinct ids, the call on any reordering of the items
\* (same catalogue, rates, options, margin) returns the palletCount, the
\* totalGross and the set of unallocated items it returns on the list as entered
C26_ResultIndependentOfOrder ==
    (MultiReturned /\ DistinctIds(multiInput.items)) =>
        \A items \in Reorderings(multiInput.items) :
            SameOutcome(OptimizeMultiItem([multiInput EXCEPT !.items = items], config),
                        multiRet)

\* the set of unallocated items is the same on every reordering
C26_UnallocatedIndependentOfOrder ==
    (MultiReturned /\ DistinctIds(multiInput.items)) =>
        \A items \in Reorderings(multiInput.items) :
            UnallocatedItems(OptimizeMultiItem([multiInput EXCEPT !.items = items], config))
                = UnallocatedItems(multiRet)

\* the function composed of the steps returns what the steps return
C26_FunctionIsTheSteps ==
    MultiReturned =>
        LET Same(r) ==
                /\ r.allocations = multiRet.allocations
                /\ r.unallocated = multiRet.unallocated
                /\ SameOutcome(r, multiRet)
        IN  Same(OptimizeMultiItem(multiInput, config))

---------------------------------------------------------------------------
(* What a committed Phase-2 round takes off the remaining list *)

\* the round pushed an allocation of k placements: the remaining list loses its
\* first k items, the ones placed, and keeps the others in place
RemovesThePlaced ==
    Phase2Commit =>
        LET k == Len(allocations'[Len(allocations')].items)
        IN  remainingItems' = SubSeq(remainingItems, k + 1, Len(remainingItems))

RECURSIVE PlacementCount(_, _)
PlacementCount(allocs, a) ==
    IF a > Len(allocs) THEN 0 ELSE Len(allocs[a].items) + PlacementCount(allocs, a + 1)

\* the call returns placements and unallocated entries that together are as
\* many as the input items
AllAccountedFor ==
    MultiReturn =>
        PlacementCount(multiRet'.allocations, 1) + Len(multiRet'.unallocated)
            = Len(multiInput.items)

\* C27: a Phase-2 round that commits removes from the remaining list exactly
\* the items placed on the pallet and leaves the others in place, also when two
\* input items carry the same id; and at the return the placements and the
\* unallocated entries together are as many as the input items
C27_CommitRemovesExactlyThePlaced ==
    [][RemovesThePlaced /\ AllAccountedFor]_vars

\* the same for inputs whose ids are pairwise distinct
C27_HoldsForDistinctIds ==
    [][DistinctIds(multiInput.items) => (RemovesThePlaced /\ AllAccountedFor)]_vars

\* a call returned with an input item neither placed nor unallocated
C27_ItemLost ==
    /\ MultiReturned
    /\ PlacementCount(multiRet.allocations, 1) + Len(multiRet.unallocated)
           < Len(multiInput.items)

---------------------------------------------------------------------------
(* Allocations and their placements *)

\* C28: every allocation of the result holds at least one placement, and the
\* result for the empty item list has no allocations, palletCount 0 and
\* totalGross 0.00
C28_NoEmptyAllocation ==
    MultiReturned =>
        /\ \A a \in 1..Len(multiRet.allocations) : Len(multiRet.allocations[a].items) >= 1
        /\ Len(multiInput.items) = 0 =>
               /\ multiRet.allocations = <<>>
               /\ multiRet.palletCount = 0
               /\ multiRet.totalGross = 0

\* the same for inputs of at least one item
C28_HoldsForNonEmptyInput ==
    (MultiReturned /\ Len(multiInput.items) > 0) =>
        \A a \in 1..Len(multiRet.allocations) : Len(multiRet.allocations[a].items) >= 1

\* the empty list returned with a pallet to pay for
C28_EmptyListOnAPallet ==
    /\ MultiReturned
    /\ multiInput.items = <<>>
    /\ multiRet.palletCount = 1
    /\ multiRet.allocations[1].items = <<>>
    /\ multiRet.totalGross > 0

---------------------------------------------------------------------------
(* The sums of the returned price components *)

\* C29: on the returned two-decimal values, netTotal is afterMinimum plus the
\* fuel and road surcharges, and grossTotal is netTotal plus vat, to the cent
C29_ComponentsAddUp ==
    pricePc = "returned" =>
        /\ priceResult.netTotal = priceResult.afterMinimum + priceResult.fuelSurcharge
                                      + priceResult.roadSurcharge
        /\ priceResult.grossTotal = priceResult.netTotal + priceResult.vat

\* the distance of two amounts
Apart(a, b) == IF a >= b THEN a - b ELSE b - a

\* the returned sums are never more than one cent away from the returned totals
C29_SumsWithinOneCent ==
    pricePc = "returned" =>
        /\ Apart(priceResult.netTotal, priceResult.afterMinimum + priceResult.fuelSurcharge
                                           + priceResult.roadSurcharge) <= 1
        /\ Apart(priceResult.grossTotal, priceResult.netTotal + priceResult.vat) <= 1

\* base rate 41 under the surcharges of the application: 41.00 + 8.21 + 5.92 is
\* 55.13 and the net total returned is 55.12
C29_NetOneCentShort ==
    /\ pricePc = "returned"
    /\ priceArgs.baseRate = 41
    /\ priceArgs.surcharges.fuelPercent = 2002
    /\ priceArgs.surcharges.roadPercent = 1443
    /\ priceResult.afterMinimum = 4100
    /\ priceResult.fuelSurcharge = 821
    /\ priceResult.roadSurcharge = 592
    /\ priceResult.netTotal = 5512
---------------------------------------------------------------------------
(* The ids of the page's item list *)

\* C30: after any sequence of add, remove, rename, reset and reload, the ids
\* of the items in the page's list are pairwise distinct
C30_ListIdsDistinct ==
    \A i, j \in 1..Len(pageItems) : i # j => pageItems[i].id # pageItems[j].id

\* every id of the list is one the counter has passed
IdsUnderCounter == \A i \in 1..Len(pageItems) : pageItems[i].id <= itemIdCounter

\* a step taken with distinct ids, none above the counter, leaves the ids
\* distinct: a repeated id needs the counter set below an id of the list
C30_DistinctWhileUnderCounter ==
    [][(IdsUnderCounter /\ C30_ListIdsDistinct) => C30_ListIdsDistinct']_vars

\* two items added, the first removed, the page loaded again, one item added:
\* the list holds item-2 twice
C30_IdTwiceAfterReload ==
    /\ Len(pageItems) = 2
    /\ pageItems[1].id = 2
    /\ pageItems[2].id = 2
    /\ itemIdCounter = 2
    /\ localStorage = pageItems

====
